---- MODULE Spec2Model ----
\* plansi: differential ANSI rendering.  The model covers the cell/style
\* value types (style.py), the visual-difference scorer (perceptual.py), the
\* differential renderer AnsiBuffer (pipe/buffer.py) writing to a terminal
\* through TerminalPlayer (pipe/player.py), the keyframe orchestration of
\* Player.play over DiffEngine (player.py, core/diff.py) and the session
\* life cycle of cli.main around Pipe.__iter__ (cli.py, pipe/base.py).
EXTENDS Integers, Sequences, FiniteSets, TLC

VARIABLES
    machine,            \* which program runs in this behaviour
    threshold,          \* args.threshold, in percent
    cache_position,     \* args.cache_position
    cache_style,        \* args.cache_style
    first_frame,        \* AnsiBuffer.first_frame
    prev_terminal,      \* AnsiBuffer.prev_terminal primary buffer
    curr_terminal,      \* AnsiBuffer.curr_terminal primary buffer
    ansi_input,         \* the data of the last AnsiBuffer.process call, <<>> before
    current_cursor,     \* AnsiBuffer.current_cursor_x / current_cursor_y
    current_style,      \* AnsiBuffer.current_style, <<>> for None
    frame_count,        \* AnsiBuffer.frame_count / Player.play frame_count
    pipe_size,          \* Pipe.width / Pipe.height of the AnsiBuffer stage
    output,             \* the unit yielded by the last process call
    last_event,         \* what the last step of the stage was
    screen,             \* the terminal the units are written to
    keyframe_interval,  \* Player.keyframe_interval
    reference_frame,    \* DiffEngine.reference_frame, <<>> for None
    reference_before,   \* DiffEngine.reference_frame when the last frame arrived
    changed_cells,      \* result of the last DiffEngine.get_changed_cells
    last_frame,         \* the frame Player.play handled last
    displayed,          \* the pixels behind each cell the yielded units have drawn
    pc,                 \* position of cli.main
    player_state,       \* position of the TerminalPlayer generator
    realtime,           \* args.realtime
    debug,              \* args.debug
    start_time,         \* TerminalPlayer.start_time is set
    skipped_frames,     \* TerminalPlayer.skipped_frames
    units_written,      \* number of units written to the terminal
    cursor_hidden,      \* SETUP_TERMINAL has been written
    restores,           \* number of RESTORE_TERMINAL sequences written
    show_cursors,       \* number of SHOW_CURSOR sequences written at exit
    perceptual,         \* args.perceptual
    arg1,               \* first cell handed to a function of style.py or a scorer
    arg2,               \* second cell handed to it
    same_objects,       \* the two cells hold the same Style and colour objects
    result,             \* what the function returned
    args_input,         \* kind of args.input: "video" or "cast"
    args_stdout,        \* args.stdout
    header_written,     \* CastWriter.header_written
    cast_size,          \* CastWriter.width / CastWriter.height
    units_in,           \* the data units the processor has yielded so far
    cast_lines,         \* the lines CastWriter has yielded so far
    file_lines,         \* what FileWriter has written, one element per write
    chain_cfg,          \* a chain of Pipe stages: the reader's items and the stages
    chain,              \* the state of the generators of the chain
    argv,               \* the command line handed to parse_args
    args,               \* the namespace parse_args returns, <<>> before the call
    pipeline            \* the stages build_pipeline has built, innermost first

bufVars == <<threshold, perceptual, cache_position, cache_style, first_frame,
             prev_terminal, curr_terminal, ansi_input, current_cursor, current_style,
             pipe_size, output, last_event, screen>>
playVars == <<keyframe_interval, reference_frame, reference_before,
              changed_cells, last_frame, displayed>>
cliVars == <<pc, player_state, realtime, debug, start_time, skipped_frames,
             units_written, cursor_hidden, restores, show_cursors>>
fnVars == <<arg1, arg2, same_objects, result>>
castVars == <<args_input, args_stdout, header_written, cast_size, units_in,
              cast_lines, file_lines>>
chainVars == <<chain_cfg, chain>>
argVars == <<argv, args, pipeline>>
vars == <<machine, frame_count, bufVars, playVars, cliVars, fnVars, castVars,
          chainVars, argVars>>

----------------------------------------------------------------------------
\* Bounds of the model

Width == 2
Height == 2
MaxFrames == 3

Pos == (0 .. Width - 1) \X (0 .. Height - 1)

Min(a, b) == IF a <= b THEN a ELSE b

----------------------------------------------------------------------------
\* Colours, styles and cells (style.py, bittty Style objects)

NoColor == <<>>
Black == <<0, 0, 0>>
Red == <<255, 0, 0>>
Red2 == <<250, 0, 0>>
Blue == <<0, 0, 255>>
Yellow == <<255, 255, 0>>

Colors == {NoColor, Black, Red, Red2, Blue, Yellow}

Attributes == {"bold", "dim", "italic", "underline", "blink", "strike", "reverse"}

MkStyle(fg, bg, attrs) ==
    [fg |-> fg, bg |-> bg,
     bold |-> "bold" \in attrs, dim |-> "dim" \in attrs,
     italic |-> "italic" \in attrs, underline |-> "underline" \in attrs,
     blink |-> "blink" \in attrs, strike |-> "strike" \in attrs,
     reverse |-> "reverse" \in attrs]

DefaultStyle == MkStyle(NoColor, NoColor, {})

MkCell(style, char) == [style |-> style, char |-> char]

BlankCell == MkCell(DefaultStyle, " ")

\* equal_color with an absent colour taken to match any colour
equal_color_absent_matches(color1, color2) ==
    IF color1 = NoColor \/ color2 = NoColor THEN TRUE
    ELSE color1 = color2

\* style.equal_color
equal_color(color1, color2) ==
    IF color1 = NoColor /\ color2 = NoColor THEN TRUE
    ELSE IF color1 = NoColor \/ color2 = NoColor THEN FALSE
    ELSE color1 = color2

\* the attribute comparison shared by style.equal and style.diff
attributes_differ(style1, style2) ==
    \/ style1.bold # style2.bold
    \/ style1.dim # style2.dim
    \/ style1.italic # style2.italic
    \/ style1.underline # style2.underline
    \/ style1.blink # style2.blink
    \/ style1.strike # style2.strike
    \/ style1.reverse # style2.reverse

\* style.equal
equal(style1, style2) ==
    IF attributes_differ(style1, style2) THEN FALSE
    ELSE equal_color(style1.fg, style2.fg) /\ equal_color(style1.bg, style2.bg)

----------------------------------------------------------------------------
\* Escape sequences (control_codes.py), one token per sequence

Tok(k, a, b, rgb, g) == [k |-> k, a |-> a, b |-> b, rgb |-> rgb, g |-> g]

MOVE_CURSOR(row, col) == Tok("move", row, col, NoColor, "")
HOME_CURSOR == Tok("home", 0, 0, NoColor, "")
SET_FOREGROUND_RGB(rgb) == Tok("fg", 0, 0, rgb, "")
SET_BACKGROUND_RGB(rgb) == Tok("bg", 0, 0, rgb, "")
RESET_FOREGROUND == Tok("fg0", 0, 0, NoColor, "")
RESET_BACKGROUND == Tok("bg0", 0, 0, NoColor, "")
RESET_STYLE == Tok("reset", 0, 0, NoColor, "")
AttrCode(name) == Tok("attr", 0, 0, NoColor, name)
Glyph(char) == Tok("glyph", 0, 0, NoColor, char)

Opt(cond, tok) == IF cond THEN <<tok>> ELSE <<>>

\* style.to_ansi leaving the attributes out
to_ansi_without_attributes(style) ==
    <<RESET_STYLE>>
    \o Opt(style.fg # NoColor /\ Len(style.fg) = 3, SET_FOREGROUND_RGB(style.fg))
    \o Opt(style.bg # NoColor /\ Len(style.bg) = 3, SET_BACKGROUND_RGB(style.bg))

\* style.to_ansi
to_ansi(style) ==
    <<RESET_STYLE>>
    \o Opt(style.fg # NoColor /\ Len(style.fg) = 3, SET_FOREGROUND_RGB(style.fg))
    \o Opt(style.bg # NoColor /\ Len(style.bg) = 3, SET_BACKGROUND_RGB(style.bg))
    \o Opt(style.bold, AttrCode("bold"))
    \o Opt(style.reverse, AttrCode("reverse"))
    \o Opt(style.dim, AttrCode("dim"))
    \o Opt(style.italic, AttrCode("italic"))
    \o Opt(style.underline, AttrCode("underline"))
    \o Opt(style.blink, AttrCode("blink"))
    \o Opt(style.strike, AttrCode("strike"))

\* style.diff taking the caching path whatever cache_style says
diff_always_cached(current, new_style, caching) ==
    IF current = <<>> THEN to_ansi(new_style)
    ELSE IF equal(current[1], new_style) THEN <<>>
    ELSE to_ansi(new_style)

\* style.diff sending colour changes only, also when the attributes differ
diff_without_rebuild(current, new_style, caching) ==
    IF current = <<>> THEN to_ansi(new_style)
    ELSE (IF ~equal_color(current[1].fg, new_style.fg)
          THEN (IF new_style.fg # NoColor /\ Len(new_style.fg) = 3
                THEN <<SET_FOREGROUND_RGB(new_style.fg)>>
                ELSE <<RESET_FOREGROUND>>)
          ELSE <<>>)
         \o
         (IF ~equal_color(current[1].bg, new_style.bg)
          THEN (IF new_style.bg # NoColor /\ Len(new_style.bg) = 3
                THEN <<SET_BACKGROUND_RGB(new_style.bg)>>
                ELSE <<RESET_BACKGROUND>>)
          ELSE <<>>)

\* style.diff; current is <<>> (None) or <<style>>
diff(current, new_style, caching) ==
    IF ~caching THEN to_ansi(new_style)
    ELSE IF current = <<>> THEN to_ansi(new_style)
    ELSE IF equal(current[1], new_style) THEN <<>>
    ELSE IF attributes_differ(current[1], new_style) THEN to_ansi(new_style)
    ELSE (IF ~equal_color(current[1].fg, new_style.fg)
          THEN (IF new_style.fg # NoColor /\ Len(new_style.fg) = 3
                THEN <<SET_FOREGROUND_RGB(new_style.fg)>>
                ELSE <<RESET_FOREGROUND>>)
          ELSE <<>>)
         \o
         (IF ~equal_color(current[1].bg, new_style.bg)
          THEN (IF new_style.bg # NoColor /\ Len(new_style.bg) = 3
                THEN <<SET_BACKGROUND_RGB(new_style.bg)>>
                ELSE <<RESET_BACKGROUND>>)
          ELSE <<>>)

----------------------------------------------------------------------------
\* Visual difference (perceptual.py)

\* perceptual.quantize_rgb
quantize_rgb(color) ==
    <<(color[1] \div 8) * 8, (color[2] \div 8) * 8, (color[3] \div 8) * 8>>

\* perceptual.extract_rgb_color
extract_rgb_color(color_obj) ==
    IF color_obj = NoColor THEN <<0, 0, 0>>
    ELSE IF Len(color_obj) = 3 THEN quantize_rgb(color_obj)
    ELSE <<0, 0, 0>>

\* perceptual.color_distance finding a distance between equal colours
color_distance_never_zero(color1, color2) == 1

\* perceptual.color_distance on the quantized palette: Delta-E CIE76 of
\* rgb_to_lab(color1) and rgb_to_lab(color2), in thousandths, rounded down
color_distance(color1, color2) ==
    LET pair == {color1, color2} IN
    IF color1 = color2 THEN 0
    ELSE IF pair = {<<0, 0, 0>>, <<248, 0, 0>>} THEN 114727
    ELSE IF pair = {<<0, 0, 0>>, <<0, 0, 248>>} THEN 134699
    ELSE IF pair = {<<0, 0, 0>>, <<248, 248, 0>>} THEN 134110
    ELSE IF pair = {<<248, 0, 0>>, <<0, 0, 248>>} THEN 172634
    ELSE IF pair = {<<248, 0, 0>>, <<248, 248, 0>>} THEN 111650
    ELSE 230239  \* {<<0, 0, 248>>, <<248, 248, 0>>}

\* the 200.0 of visual_difference, in thousandths
Normalization == 200000

\* one percent of score in the unit visual_difference is computed in
ScoreUnit == Normalization \div 50

\* the colours visual_difference compares: extracted, then swapped on reverse
EffectiveColors(style) ==
    LET efg == extract_rgb_color(style.fg)
        ebg == extract_rgb_color(style.bg)
    IN  IF style.reverse THEN [fg |-> ebg, bg |-> efg] ELSE [fg |-> efg, bg |-> ebg]

\* perceptual.visual_difference, in 1/ScoreUnit percent:
\* (min(d_fg / 200, 1) + min(d_bg / 200, 1)) / 2 * 100, with the two channel
\* terms it is the sum of.  colors_eq is what == answers for two colour
\* objects of equal value (the colour class of the terminal library decides)
visual_difference_parts(cell1, cell2, colors_eq) ==
    LET style1 == cell1.style
        style2 == cell2.style
        c1 == EffectiveColors(style1)
        c2 == EffectiveColors(style2)
        fg_color_diff == Min(color_distance(c1.fg, c2.fg), Normalization)
        bg_color_diff == Min(color_distance(c1.bg, c2.bg), Normalization)
    IN  IF /\ cell1.char = cell2.char
           /\ style1.reverse = style2.reverse
           /\ colors_eq
           /\ style1.fg = style2.fg
           /\ style1.bg = style2.bg
        THEN [score |-> 0, fg |-> 0, bg |-> 0]
        ELSE [score |-> fg_color_diff + bg_color_diff,
              fg |-> fg_color_diff, bg |-> bg_color_diff]

\* perceptual.visual_difference on cells read from two terminal buffers
visual_difference(cell1, cell2) ==
    visual_difference_parts(cell1, cell2, TRUE).score

----------------------------------------------------------------------------
\* The scorer of TerminalRenderer (core/terminal_render.py)

\* the 441.67 of TerminalRenderer, in thousandths
MaxRgbDistance == 441670

\* TerminalRenderer._extract_rgb_color, NoColor for None
TerminalRenderer_extract_rgb_color(color_obj) ==
    IF color_obj = NoColor THEN NoColor
    ELSE IF Len(color_obj) = 3 THEN quantize_rgb(color_obj)
    ELSE NoColor

\* math.sqrt of a sum of squares of channel differences of quantized
\* colours with channels 0 and 248, in thousandths, rounded down
SqrtThousandths(n) ==
    IF n = 0 THEN 0
    ELSE IF n = 61504 THEN 248000
    ELSE IF n = 123008 THEN 350724
    ELSE 429548  \* n = 184512

\* TerminalRenderer._color_distance, in thousandths
TerminalRenderer_color_distance(color1, color2) ==
    IF color1 = NoColor \/ color2 = NoColor
    THEN (IF (color1 = NoColor) # (color2 = NoColor) THEN MaxRgbDistance ELSE 0)
    ELSE SqrtThousandths((color1[1] - color2[1]) * (color1[1] - color2[1])
                         + (color1[2] - color2[2]) * (color1[2] - color2[2])
                         + (color1[3] - color2[3]) * (color1[3] - color2[3]))

\* TerminalRenderer._contrast, in thousandths
TerminalRenderer_contrast(fg_color, bg_color) ==
    IF fg_color = NoColor \/ bg_color = NoColor THEN 0
    ELSE TerminalRenderer_color_distance(fg_color, bg_color)

Abs(n) == IF n < 0 THEN 0 - n ELSE n

\* TerminalRenderer._visual_difference, in units of 25 / MaxRgbDistance
\* percent: 100 * (0.5 glyph + 0.25 fg + 0.25 bg + 0.25 contrast), every
\* distance divided by 441.67.  styles_eq is what == answers for two Style
\* objects of equal value
TerminalRenderer_visual_difference(cell1, cell2, styles_eq) ==
    LET fg1 == TerminalRenderer_extract_rgb_color(cell1.style.fg)
        bg1 == TerminalRenderer_extract_rgb_color(cell1.style.bg)
        fg2 == TerminalRenderer_extract_rgb_color(cell2.style.fg)
        bg2 == TerminalRenderer_extract_rgb_color(cell2.style.bg)
        fg_diff == TerminalRenderer_color_distance(fg1, fg2)
        bg_diff == TerminalRenderer_color_distance(bg1, bg2)
        glyph_weight == IF cell1.char # cell2.char THEN 1 ELSE 0
        contrast_diff == Abs(TerminalRenderer_contrast(fg1, bg1)
                             - TerminalRenderer_contrast(fg2, bg2))
    IN  IF cell1.char = cell2.char /\ styles_eq /\ cell1.style = cell2.style
        THEN [score |-> 0, fg |-> 0, bg |-> 0]
        ELSE [score |-> 2 * MaxRgbDistance * glyph_weight
                        + fg_diff + bg_diff + contrast_diff,
              fg |-> fg_diff, bg |-> bg_diff]

----------------------------------------------------------------------------
\* The terminal the output is written to (the sequences of control_codes.py
\* as a terminal executes them)

Advance(cursor) ==
    IF cursor[1] + 1 < Width THEN <<cursor[1] + 1, cursor[2]>>
    ELSE <<0, cursor[2] + 1>>

SetAttr(style, name) ==
    CASE name = "bold" -> [style EXCEPT !.bold = TRUE]
      [] name = "dim" -> [style EXCEPT !.dim = TRUE]
      [] name = "italic" -> [style EXCEPT !.italic = TRUE]
      [] name = "underline" -> [style EXCEPT !.underline = TRUE]
      [] name = "blink" -> [style EXCEPT !.blink = TRUE]
      [] name = "strike" -> [style EXCEPT !.strike = TRUE]
      [] OTHER -> [style EXCEPT !.reverse = TRUE]

ApplyTok(scr, tok) ==
    CASE tok.k = "home" -> [scr EXCEPT !.cursor = <<0, 0>>]
      [] tok.k = "move" -> [scr EXCEPT !.cursor = <<tok.b - 1, tok.a - 1>>]
      [] tok.k = "reset" -> [scr EXCEPT !.style = DefaultStyle]
      [] tok.k = "fg" -> [scr EXCEPT !.style.fg = tok.rgb]
      [] tok.k = "bg" -> [scr EXCEPT !.style.bg = tok.rgb]
      [] tok.k = "fg0" -> [scr EXCEPT !.style.fg = NoColor]
      [] tok.k = "bg0" -> [scr EXCEPT !.style.bg = NoColor]
      [] tok.k = "attr" -> [scr EXCEPT !.style = SetAttr(scr.style, tok.g)]
      [] OTHER ->
            IF scr.cursor \in Pos
            THEN [scr EXCEPT !.grid[scr.cursor] = MkCell(scr.style, tok.g),
                             !.cursor = Advance(scr.cursor)]
            ELSE scr

RECURSIVE ApplyFrom(_, _, _)
ApplyFrom(scr, toks, i) ==
    IF i > Len(toks) THEN scr
    ELSE ApplyFrom(ApplyTok(scr, toks[i]), toks, i + 1)

Apply(scr, toks) == ApplyFrom(scr, toks, 1)

\* a blob paints every cell it holds, on the emulator
\* (Terminal.parser.feed after set_cursor(0, 0)) as on the terminal; the
\* cells it does not hold keep what the grid had
Feed(grid, blob) ==
    [p \in DOMAIN grid |-> IF p \in DOMAIN blob THEN blob[p] ELSE grid[p]]

ApplyBlob(scr, blob) ==
    [grid |-> Feed(scr.grid, blob),
     cursor |-> <<0, Height>>,
     style |-> blob[<<Width - 1, Height - 1>>].style]

BlankGrid == [p \in Pos |-> BlankCell]

----------------------------------------------------------------------------
\* AnsiBuffer (pipe/buffer.py)

\* AnsiBuffer._cells_different taking every cell for changed
AnsiBuffer_cells_different_always(main_cell, alt_cell) == TRUE

\* AnsiBuffer._cells_different leaving the glyphs to the score
AnsiBuffer_cells_different_by_score(main_cell, alt_cell) ==
    IF threshold = 0 THEN ~equal(main_cell.style, alt_cell.style)
    ELSE visual_difference(main_cell, alt_cell) >= threshold * ScoreUnit

\* AnsiBuffer._cells_different
AnsiBuffer_cells_different(main_cell, alt_cell) ==
    IF main_cell.char # alt_cell.char THEN TRUE
    ELSE IF threshold = 0 THEN ~equal(main_cell.style, alt_cell.style)
    ELSE visual_difference(main_cell, alt_cell) >= threshold * ScoreUnit

\* AnsiBuffer._generate_cursor_movement
generate_cursor_movement(cursor, target_col, target_row) ==
    IF ~cache_position THEN <<MOVE_CURSOR(target_row + 1, target_col + 1)>>
    ELSE IF cursor[1] = target_col /\ cursor[2] = target_row THEN <<>>
    ELSE IF target_col = cursor[1] + 1 /\ target_row = cursor[2] THEN <<>>
    ELSE <<MOVE_CURSOR(target_row + 1, target_col + 1)>>

\* body of the loop of AnsiBuffer.process for one cell
ProcessCell(st, col, row, prev, curr) ==
    IF ~AnsiBuffer_cells_different(prev[<<col, row>>], curr[<<col, row>>]) THEN st
    ELSE
        LET cursor_move == generate_cursor_movement(st.cursor, col, row)
            st1 == IF cursor_move # <<>>
                   THEN [st EXCEPT !.out = st.out \o cursor_move,
                                   !.cursor = <<col, row>>]
                   ELSE st
            curr_style == curr[<<col, row>>].style
            curr_char == curr[<<col, row>>].char
            style_changes == diff(st1.style, curr_style, cache_style)
            st2 == IF style_changes # <<>>
                   THEN [st1 EXCEPT !.out = st1.out \o style_changes,
                                    !.style = <<curr_style>>]
                   ELSE st1
            written == IF curr_char = "" THEN " " ELSE curr_char
        IN  [st2 EXCEPT !.out = st2.out \o <<Glyph(written)>>,
                        !.changed = st2.changed \o <<<<col, row>>>>,
                        !.cursor = IF col + 1 >= Width
                                   THEN <<0, st2.cursor[2] + 1>>
                                   ELSE <<col + 1, st2.cursor[2]>>]

\* the row-major loop of AnsiBuffer.process, from cell number i on
RECURSIVE ProcessLoop(_, _, _, _)
ProcessLoop(st, i, prev, curr) ==
    IF i >= Width * Height THEN st
    ELSE ProcessLoop(ProcessCell(st, i % Width, i \div Width, prev, curr),
                     i + 1, prev, curr)

NoOutput == [kind |-> "none", toks |-> <<>>, blob |-> <<>>, changed |-> <<>>]

\* the full frames the upstream stage produces
PaintCells ==
    {MkCell(DefaultStyle, "A"),
     MkCell(MkStyle(Red, NoColor, {}), "A"),
     MkCell(MkStyle(Red2, NoColor, {}), "A"),
     MkCell(MkStyle(Red, NoColor, {"bold"}), "A")}

\* a blank frame, or a blank frame with one cell painted
SingleFrames(cells) ==
    {BlankGrid} \cup {[BlankGrid EXCEPT ![p] = c] : p \in Pos, c \in cells}

\* a frame painted with one cell all over
UniformFrames(cells) == {[p \in Pos |-> c] : c \in cells}

Frames == SingleFrames(PaintCells)

Thresholds == {0, 5}

\* the frames and thresholds of the two-frame sessions: one cell per
\* attribute, a background colour, and a pair of colours at distance >= 200
PairCells ==
    PaintCells
    \cup {MkCell(MkStyle(Red, NoColor, {a}), "A") : a \in Attributes}
    \cup {MkCell(MkStyle(Red, Blue, {}), "B"),
          MkCell(MkStyle(Blue, NoColor, {}), "A"),
          MkCell(MkStyle(Yellow, NoColor, {}), "A")}

PairFrames == SingleFrames(PairCells) \cup UniformFrames(PairCells)

PairThresholds == {0, 5, 50}

\* AnsiBuffer.setup, TerminalPlayer.setup (SETUP_TERMINAL clears the screen)
\* the parts of the state a behaviour of another program leaves alone
BufferIdle ==
    /\ threshold = 0
    /\ perceptual = TRUE
    /\ cache_position = FALSE
    /\ cache_style = TRUE
    /\ first_frame = TRUE
    /\ prev_terminal = BlankGrid
    /\ curr_terminal = BlankGrid
    /\ ansi_input = <<>>
    /\ current_cursor = <<0, 0>>
    /\ current_style = <<>>
    /\ pipe_size = <<Width, 24>>
    /\ screen = [grid |-> BlankGrid, cursor |-> <<0, 0>>, style |-> DefaultStyle]

PlayerIdle ==
    /\ keyframe_interval = 1
    /\ reference_frame = <<>>
    /\ reference_before = <<>>
    /\ changed_cells = {}
    /\ last_frame = <<>>
    /\ displayed = <<>>

CliIdle ==
    /\ pc = "none"
    /\ player_state = "none"
    /\ realtime = FALSE
    /\ debug = FALSE
    /\ start_time = FALSE
    /\ skipped_frames = 0
    /\ units_written = 0
    /\ cursor_hidden = FALSE
    /\ restores = 0
    /\ show_cursors = 0

ScorerIdle ==
    /\ arg1 = BlankCell
    /\ arg2 = BlankCell
    /\ same_objects = FALSE
    /\ result = [fn |-> "none", toks |-> <<>>, score |-> 0, fg |-> 0, bg |-> 0]

CastIdle ==
    /\ args_input = "video"
    /\ args_stdout = TRUE
    /\ header_written = FALSE
    /\ cast_size = <<Width, 24>>
    /\ units_in = <<>>
    /\ cast_lines = <<>>
    /\ file_lines = <<>>

ChainIdle ==
    /\ chain_cfg = <<>>
    /\ chain = <<>>

ArgsIdle ==
    /\ argv = <<>>
    /\ args = <<>>
    /\ pipeline = <<>>

\* AnsiBuffer.setup under the given values of args.threshold and args.perceptual
InitBufferArgs(thresholds, perceptuals) ==
    /\ machine = "buffer"
    /\ threshold \in thresholds
    /\ perceptual \in perceptuals
    /\ cache_position \in BOOLEAN
    /\ cache_style \in BOOLEAN
    /\ first_frame = TRUE
    /\ prev_terminal = BlankGrid
    /\ curr_terminal = BlankGrid
    /\ ansi_input = <<>>
    /\ current_cursor = <<0, 0>>
    /\ current_style = <<>>
    /\ frame_count = 0
    /\ pipe_size = <<Width, 24>>
    /\ output = NoOutput
    /\ last_event = "setup"
    /\ screen = [grid |-> BlankGrid, cursor |-> <<0, 0>>, style |-> DefaultStyle]
    /\ PlayerIdle
    /\ CliIdle
    /\ ScorerIdle
    /\ CastIdle
    /\ ChainIdle
    /\ ArgsIdle

\* args.perceptual is the implied value of video input
InitBufferWith(thresholds) == InitBufferArgs(thresholds, {TRUE})

\* AnsiBuffer.process on the first frame, then TerminalPlayer.process
ProcessFirst(blob) ==
    /\ machine = "buffer"
    /\ first_frame
    /\ frame_count < MaxFrames
    /\ first_frame' = FALSE
    /\ ansi_input' = blob
    /\ prev_terminal' = Feed(prev_terminal, blob)
    /\ output' = [kind |-> "full", toks |-> <<>>, blob |-> blob, changed |-> <<>>]
    /\ frame_count' = frame_count + 1
    /\ last_event' = "first"
    /\ screen' = ApplyBlob(Apply(screen, <<HOME_CURSOR>>), blob)
    /\ UNCHANGED <<machine, threshold, perceptual, cache_position, cache_style,
                   curr_terminal, current_cursor, current_style, pipe_size,
                   playVars, cliVars, fnVars, castVars, chainVars, argVars>>

\* AnsiBuffer.process on a later frame, then TerminalPlayer.process
ProcessDiff(blob) ==
    /\ machine = "buffer"
    /\ ~first_frame
    /\ frame_count < MaxFrames
    /\ ansi_input' = blob
    /\ LET parsed == Feed(curr_terminal, blob)
           st0 == [cursor |-> <<0, 0>>, style |-> <<>>, out |-> <<>>, changed |-> <<>>]
           st == ProcessLoop(st0, 0, prev_terminal, parsed)
       IN  /\ current_cursor' = st.cursor
           /\ current_style' = st.style
           /\ prev_terminal' = parsed
           /\ curr_terminal' = prev_terminal
           /\ output' = [kind |-> "diff", toks |-> st.out, blob |-> <<>>,
                        changed |-> st.changed]
           /\ screen' = Apply(screen, <<HOME_CURSOR>> \o st.out)
    /\ frame_count' = frame_count + 1
    /\ last_event' = "diff"
    /\ UNCHANGED <<machine, threshold, perceptual, cache_position, cache_style,
                   first_frame, pipe_size, playVars, cliVars, fnVars, castVars, chainVars, argVars>>

\* Pipe.on_resize as AnsiBuffer inherits it: the stage's own width and
\* height follow the event, the event is forwarded, nothing else changes
OnResize(width, height) ==
    /\ machine = "buffer"
    /\ pipe_size' = <<width, height>>
    /\ last_event' = IF <<width, height>> # pipe_size THEN "resize" ELSE "resize_same"
    /\ output' = [kind |-> "event", toks |-> <<>>, blob |-> <<width, height>>,
                  changed |-> <<>>]
    /\ UNCHANGED <<machine, threshold, perceptual, cache_position, cache_style, first_frame,
                   prev_terminal, curr_terminal, ansi_input, current_cursor, current_style,
                   frame_count, screen, playVars, cliVars, fnVars, castVars, chainVars, argVars>>

ResizeSizes == {<<Width, Height>>, <<Width + 1, Height + 1>>}

InitBuffer == InitBufferWith(Thresholds)

NextBuffer ==
    \/ \E blob \in Frames : ProcessFirst(blob)
    \/ \E blob \in Frames : ProcessDiff(blob)

Spec == InitBuffer /\ [][NextBuffer]_vars

\* sessions in which resize events reach the stage between the frames
ResizeFrames == SingleFrames({MkCell(DefaultStyle, "A")})

NextResize ==
    \/ \E blob \in ResizeFrames : ProcessFirst(blob)
    \/ \E blob \in ResizeFrames : ProcessDiff(blob)
    \/ \E size \in ResizeSizes : OnResize(size[1], size[2])

SpecResize == InitBuffer /\ [][NextResize]_vars

\* sessions of frames with one cell painted or painted all over, which
\* repeat and revert often
RepeatFrames == ResizeFrames \cup UniformFrames(PaintCells)

NextRepeat ==
    \/ \E blob \in RepeatFrames : ProcessFirst(blob)
    \/ \E blob \in RepeatFrames : ProcessDiff(blob)

SpecRepeat == InitBuffer /\ [][NextRepeat]_vars

\* sessions under either value of args.perceptual (--no-perceptual)
InitExact == InitBufferArgs(Thresholds, BOOLEAN)

SpecExact == InitExact /\ [][NextBuffer]_vars

\* sessions of two frames: any first frame, then any second frame
InitPair == InitBufferWith(PairThresholds)

NextPair ==
    \/ \E blob \in PairFrames : ProcessFirst(blob)
    \/ \E blob \in PairFrames : last_event = "first" /\ ProcessDiff(blob)

SpecPair == InitPair /\ [][NextPair]_vars

----------------------------------------------------------------------------
\* DiffEngine (core/diff.py) and Player.play (player.py)

ImgCols == 2
ImgRows == 1
MaxPlayFrames == 4

\* the image's last column and row of cells are partial
ImgWidth == 8 * ImgCols - 3
ImgHeight == 4 * ImgRows - 1

Pixels == (0 .. ImgWidth - 1) \X (0 .. ImgHeight - 1)

pixel_threshold == 30
cell_threshold_percent == 25
total_pixels == 32

\* DiffEngine._pixel_distance(p1, p2) > pixel_threshold, squared
pixel_changed(p1, p2) ==
    (p1[1] - p2[1]) * (p1[1] - p2[1])
    + (p1[2] - p2[2]) * (p1[2] - p2[2])
    + (p1[3] - p2[3]) * (p1[3] - p2[3]) > pixel_threshold * pixel_threshold

\* DiffEngine._cell_changed
cell_changed(current, reference, cell_x, cell_y) ==
    LET sampled == {px \in (cell_x * 8 .. (cell_x + 1) * 8 - 1)
                            \X (cell_y * 4 .. (cell_y + 1) * 4 - 1) :
                        px[1] < ImgWidth /\ px[2] < ImgHeight}
        changed_pixels == Cardinality({px \in sampled :
                                pixel_changed(current[px], reference[px])})
    IN  changed_pixels * 100 >= cell_threshold_percent * total_pixels

ImageCells ==
    (0 .. ((ImgWidth + 7) \div 8) - 1) \X (0 .. ((ImgHeight + 3) \div 4) - 1)

\* get_changed_cells reporting no cell when it has no reference
get_changed_cells_none_first(reference, current_frame) ==
    IF reference = <<>>
    THEN [cells |-> {}, reference |-> current_frame]
    ELSE [cells |-> {c \in ImageCells :
                        cell_changed(current_frame, reference, c[1], c[2])},
          reference |-> reference]

\* DiffEngine.get_changed_cells: the changed cells and the reference it leaves
get_changed_cells(reference, current_frame) ==
    IF reference = <<>>
    THEN [cells |-> ImageCells, reference |-> current_frame]
    ELSE [cells |-> {c \in ImageCells :
                        cell_changed(current_frame, reference, c[1], c[2])},
          reference |-> reference]

\* Player.play not clearing the reference on a keyframe
ReferenceForDiff_kept(is_keyframe, reference) == reference

\* the reference Player.play leaves to the diff: cleared on a keyframe
ReferenceForDiff(is_keyframe, reference) ==
    IF is_keyframe THEN <<>> ELSE reference

\* frames: a black image, or a black image in which the first n pixels of
\* one cell (row by row) have another colour
LitCounts == {7, 8}
LitColors == {<<255, 255, 255>>, <<17, 17, 17>>}
CellLit(cell, n, px) ==
    /\ <<px[1] \div 8, px[2] \div 4>> = cell
    /\ (px[2] % 4) * 8 + (px[1] % 8) < n
BlackImage == [px \in Pixels |-> <<0, 0, 0>>]
Images ==
    {BlackImage} \cup
    {[px \in Pixels |-> IF CellLit(cell, n, px) THEN color ELSE <<0, 0, 0>>] :
        cell \in ImageCells, n \in LitCounts, color \in LitColors}

\* ANSIRenderer.render_differential written to the terminal: each changed
\* cell is drawn from the frame's pixels of that cell, the others are kept
render_differential(shown, image, cells) ==
    IF cells = {} THEN shown
    ELSE [px \in Pixels |-> IF <<px[1] \div 8, px[2] \div 4>> \in cells
                             THEN image[px] ELSE shown[px]]

InitPlayer ==
    /\ machine = "player"
    /\ keyframe_interval \in {1, 2, 3}
    /\ reference_frame = <<>>
    /\ reference_before = <<>>
    /\ changed_cells = {}
    /\ last_frame = <<>>
    /\ displayed = <<>>
    /\ frame_count = 0
    /\ output = NoOutput
    /\ last_event = "setup"
    /\ BufferIdle
    /\ CliIdle
    /\ ScorerIdle
    /\ CastIdle
    /\ ChainIdle
    /\ ArgsIdle

\* Player.play up to its first yield: the clear-screen unit
PlayStart ==
    /\ machine = "player"
    /\ last_event = "setup"
    /\ last_event' = "clear_screen"
    /\ output' = [kind |-> "clear", toks |-> <<>>, blob |-> <<>>, changed |-> <<>>]
    /\ UNCHANGED <<machine, frame_count, threshold, perceptual, cache_position, cache_style,
                   first_frame, prev_terminal, curr_terminal, ansi_input, current_cursor,
                   current_style, pipe_size, screen, playVars, cliVars, fnVars, castVars, chainVars, argVars>>

\* one iteration of the loop of Player.play
PlayFrame(frame) ==
    /\ machine = "player"
    /\ last_event # "setup"
    /\ frame_count < MaxPlayFrames
    /\ LET is_keyframe == (frame_count % keyframe_interval) = 0
           res == get_changed_cells(ReferenceForDiff(is_keyframe, reference_frame),
                                    frame)
       IN  /\ changed_cells' = res.cells
           /\ reference_frame' = IF is_keyframe THEN frame ELSE res.reference
           /\ last_event' = IF is_keyframe THEN "keyframe" ELSE "frame"
           /\ output' = IF res.cells # {}
                        THEN [kind |-> "cells", toks |-> <<>>, blob |-> <<>>,
                              changed |-> <<>>]
                        ELSE NoOutput
    /\ reference_before' = reference_frame
    /\ last_frame' = frame
    /\ displayed' = render_differential(displayed, frame, changed_cells')
    /\ frame_count' = frame_count + 1
    /\ UNCHANGED <<machine, keyframe_interval, threshold, perceptual, cache_position,
                   cache_style, first_frame, prev_terminal, curr_terminal, ansi_input,
                   current_cursor, current_style, pipe_size, screen, cliVars, fnVars, castVars, chainVars, argVars>>

NextPlayer == PlayStart \/ \E frame \in Images : PlayFrame(frame)

SpecPlayer == InitPlayer /\ [][NextPlayer]_vars

\* the two renderers, one per behaviour
SpecRenderers == (InitBuffer \/ InitPlayer) /\ [][NextRepeat \/ NextPlayer]_vars

----------------------------------------------------------------------------
\* A terminal-playback session: cli.main iterating a TerminalPlayer
\* (cli.py, pipe/base.py, pipe/player.py)

MaxUnits == 3

InitCli ==
    /\ machine = "cli"
    /\ pc = "start"
    /\ player_state = "created"
    /\ realtime \in BOOLEAN
    /\ debug \in BOOLEAN
    /\ start_time = FALSE
    /\ skipped_frames = 0
    /\ units_written = 0
    /\ cursor_hidden = FALSE
    /\ restores = 0
    /\ show_cursors = 0
    /\ frame_count = 0
    /\ output = NoOutput
    /\ last_event = "setup"
    /\ BufferIdle
    /\ PlayerIdle
    /\ ScorerIdle
    /\ CastIdle
    /\ ChainIdle
    /\ ArgsIdle

CliUnchanged ==
    UNCHANGED <<machine, threshold, perceptual, cache_position, cache_style, first_frame,
                prev_terminal, curr_terminal, ansi_input, current_cursor, current_style,
                pipe_size, output, last_event, screen, playVars, realtime, debug,
                fnVars, castVars, chainVars, argVars>>

\* main up to the for statement: atexit.register, the pipeline is built
MainStart ==
    /\ machine = "cli"
    /\ pc = "start"
    /\ pc' = "next"
    /\ CliUnchanged
    /\ UNCHANGED <<frame_count, player_state, start_time, skipped_frames,
                   units_written, cursor_hidden, restores, show_cursors>>

\* Pipe.__iter__ entered by the first next(): with self, __enter__, setup
PlayerSetup ==
    /\ machine = "cli"
    /\ pc = "next"
    /\ player_state = "created"
    /\ player_state' = "running"
    /\ cursor_hidden' = TRUE
    /\ CliUnchanged
    /\ UNCHANGED <<frame_count, pc, start_time, skipped_frames, units_written,
                   restores, show_cursors>>

\* TerminalPlayer.process for one unit of the upstream, up to its yield;
\* behind is the outcome of current_time > timestamp
PlayerProcess(behind) ==
    /\ machine = "cli"
    /\ pc = "next"
    /\ player_state = "running"
    /\ frame_count < MaxUnits
    /\ IF ~start_time
       THEN /\ start_time' = TRUE
            /\ units_written' = units_written + 1
            /\ UNCHANGED skipped_frames
       ELSE IF realtime /\ behind
       THEN /\ skipped_frames' = skipped_frames + 1
            /\ UNCHANGED <<start_time, units_written>>
       ELSE /\ skipped_frames' = IF realtime /\ skipped_frames > 0 /\ debug
                                 THEN 0 ELSE skipped_frames
            /\ units_written' = units_written + 1
            /\ UNCHANGED start_time
    /\ frame_count' = frame_count + 1
    /\ player_state' = "suspended"
    /\ pc' = "loop_body"
    /\ CliUnchanged
    /\ UNCHANGED <<cursor_hidden, restores, show_cursors>>

\* the body of main's for statement, then the next next()
MainLoopBody ==
    /\ machine = "cli"
    /\ pc = "loop_body"
    /\ pc' = "next"
    /\ player_state' = "running"
    /\ CliUnchanged
    /\ UNCHANGED <<frame_count, start_time, skipped_frames, units_written,
                   cursor_hidden, restores, show_cursors>>

\* Pipe.__exit__ leaving the with statement of __iter__: TerminalPlayer.teardown
\* writes RESTORE_TERMINAL; how is what ends the iteration
PlayerExit(how) ==
    /\ machine = "cli"
    /\ pc = "next"
    /\ player_state = "running"
    /\ restores' = restores + 1
    /\ player_state' = "closed"
    /\ pc' = CASE how = "exhausted" -> "after_loop"
               [] how = "exception" -> "except_exception"
               [] OTHER -> "except_interrupt"
    /\ CliUnchanged
    /\ UNCHANGED <<frame_count, start_time, skipped_frames, units_written,
                   cursor_hidden, show_cursors>>

\* KeyboardInterrupt in the body of main's for statement: unwinding to the
\* handler releases the suspended generator, whose close() runs teardown
InterruptInBody ==
    /\ machine = "cli"
    /\ pc = "loop_body"
    /\ player_state = "suspended"
    /\ restores' = restores + 1
    /\ player_state' = "closed"
    /\ pc' = "except_interrupt"
    /\ CliUnchanged
    /\ UNCHANGED <<frame_count, start_time, skipped_frames, units_written,
                   cursor_hidden, show_cursors>>

\* the except clauses of main: print(RESTORE_TERMINAL), sys.exit
MainHandler ==
    /\ machine = "cli"
    /\ pc \in {"except_interrupt", "except_exception"}
    /\ restores' = restores + 1
    /\ pc' = "exit"
    /\ CliUnchanged
    /\ UNCHANGED <<frame_count, player_state, start_time, skipped_frames,
                   units_written, cursor_hidden, show_cursors>>

\* interpreter exit: the atexit hook restore_cursor writes SHOW_CURSOR
AtExit ==
    /\ machine = "cli"
    /\ pc \in {"exit", "after_loop"}
    /\ show_cursors' = show_cursors + 1
    /\ pc' = "terminated"
    /\ CliUnchanged
    /\ UNCHANGED <<frame_count, player_state, start_time, skipped_frames,
                   units_written, cursor_hidden, restores>>

NextCli ==
    \/ MainStart
    \/ PlayerSetup
    \/ \E behind \in BOOLEAN : PlayerProcess(behind)
    \/ MainLoopBody
    \/ \E how \in {"exhausted", "exception", "interrupt"} : PlayerExit(how)
    \/ InterruptInBody
    \/ MainHandler
    \/ AtExit

SpecCli == InitCli /\ [][NextCli]_vars

----------------------------------------------------------------------------
\* The functions of style.py and the two scorers, applied to a pair of cells

NoResult == [fn |-> "none", toks |-> <<>>, score |-> 0, fg |-> 0, bg |-> 0]

FnUnchanged ==
    UNCHANGED <<machine, frame_count, bufVars, playVars, cliVars,
                arg1, arg2, same_objects, castVars, chainVars, argVars>>

\* every colour combination under no attribute, each single attribute and
\* one pair of attributes
DiffColors == {NoColor, Red, Blue}
DiffAttributes == {{}} \cup {{a} : a \in Attributes} \cup {{"bold", "reverse"}}
DiffCells ==
    {MkCell(MkStyle(fg, bg, attrs), "A") :
        fg \in DiffColors, bg \in DiffColors, attrs \in DiffAttributes}

InitStyle ==
    /\ machine = "style"
    /\ arg1 \in DiffCells
    /\ arg2 \in DiffCells
    /\ same_objects = FALSE
    /\ result = NoResult
    /\ frame_count = 0
    /\ output = NoOutput
    /\ last_event = "setup"
    /\ BufferIdle
    /\ PlayerIdle
    /\ CliIdle
    /\ CastIdle
    /\ ChainIdle
    /\ ArgsIdle

\* style.diff(current_style, new_style, cache_style) on the two styles
CallDiff(caching) ==
    /\ machine = "style"
    /\ result' = [fn |-> IF caching THEN "diff" ELSE "diff_uncached",
                  toks |-> diff(<<arg1.style>>, arg2.style, caching),
                  score |-> 0, fg |-> 0, bg |-> 0]
    /\ FnUnchanged

NextStyle == \E caching \in BOOLEAN : CallDiff(caching)

SpecStyle == InitStyle /\ [][NextStyle]_vars

\* cells of every colour combination, plain or reversed, of two glyphs
ScoreColors == {NoColor, Black, Red, Blue}
ScoreCells ==
    {MkCell(MkStyle(fg, bg, attrs), char) :
        fg \in ScoreColors, bg \in ScoreColors,
        attrs \in {{}, {"reverse"}}, char \in {"A", "B"}}

InitScorer ==
    /\ machine = "scorer"
    /\ arg1 \in ScoreCells
    /\ arg2 \in ScoreCells
    /\ same_objects \in BOOLEAN
    /\ result = NoResult
    /\ frame_count = 0
    /\ output = NoOutput
    /\ last_event = "setup"
    /\ BufferIdle
    /\ PlayerIdle
    /\ CliIdle
    /\ CastIdle
    /\ ChainIdle
    /\ ArgsIdle

\* perceptual.visual_difference(cell1, cell2)
CallVisualDifference ==
    /\ machine = "scorer"
    /\ LET r == visual_difference_parts(arg1, arg2, same_objects)
       IN  result' = [fn |-> "visual_difference", toks |-> <<>>,
                      score |-> r.score, fg |-> r.fg, bg |-> r.bg]
    /\ FnUnchanged

\* TerminalRenderer._visual_difference(cell1, cell2)
CallRendererVisualDifference ==
    /\ machine = "scorer"
    /\ LET r == TerminalRenderer_visual_difference(arg1, arg2, same_objects)
       IN  result' = [fn |-> "TerminalRenderer_visual_difference", toks |-> <<>>,
                      score |-> r.score, fg |-> r.fg, bg |-> r.bg]
    /\ FnUnchanged

NextScorer == CallVisualDifference \/ CallRendererVisualDifference

SpecScorer == InitScorer /\ [][NextScorer]_vars

----------------------------------------------------------------------------
\* Writing to an output: get_output (pipeline.py) over the units of the
\* processor, CastWriter (pipe/write_cast.py), FileWriter (pipe/write_file.py)

MaxCastItems == 3

\* the data units the processor yields, as sequences of characters
CastUnits ==
    {<<>>, <<" ">>, <<"\n">>, <<"x">>, <<"x", "\n", "x">>,
     <<"x", "\r", "\n">>}

Whitespace == {" ", "\n", "\r", "\t"}

\* not ansi_string or not ansi_string.strip()
IsBlank(ansi_string) ==
    \A i \in 1 .. Len(ansi_string) : ansi_string[i] \in Whitespace

RECURSIVE replace_newlines(_)

\* ansi_string.replace("\n", "\r\n") leaving the string as it is
replace_nothing(ansi_string) == ansi_string

\* ansi_string.replace("\n", "\r\n")
replace_newlines(ansi_string) ==
    IF ansi_string = <<>> THEN <<>>
    ELSE (IF Head(ansi_string) = "\n" THEN <<"\r", "\n">> ELSE <<Head(ansi_string)>>)
         \o replace_newlines(Tail(ansi_string))

\* the timestamp of the k-th unit, in microseconds
Timestamp(k) == k * 33333

\* float(f"{timestamp:.4f}"), in ten-thousandths of a second
RoundTime(timestamp) == (timestamp + 50) \div 100

\* one write of FileWriter or one yield of CastWriter: json.dumps of the
\* header object, json.dumps of an entry list, or data that is no JSON
Line(kind, version, size, time, event, data) ==
    [kind |-> kind, version |-> version, size |-> size, time |-> time,
     event |-> event, data |-> data]

HeaderLine(size) == Line("header", 2, size, 0, "", <<>>)

EntryLine(timestamp, data) == Line("entry", 0, <<>>, RoundTime(timestamp), "o", data)

RawLine(data) == Line("raw", 0, <<>>, 0, "", data)

\* CastWriter.process repeating the header with every entry
CastWriter_process_header_each(written, size, timestamp, data) ==
    IF IsBlank(data) THEN [lines |-> <<>>, header_written |-> written]
    ELSE [lines |-> <<HeaderLine(size),
                      EntryLine(timestamp, replace_newlines(data))>>,
          header_written |-> TRUE]

\* CastWriter.process: the lines it yields and header_written after it
CastWriter_process(written, size, timestamp, data) ==
    IF IsBlank(data) THEN [lines |-> <<>>, header_written |-> written]
    ELSE [lines |-> (IF ~written THEN <<HeaderLine(size)>> ELSE <<>>)
                    \o <<EntryLine(timestamp, replace_newlines(data))>>,
          header_written |-> TRUE]

InitCast ==
    /\ machine = "cast"
    /\ args_input \in {"video", "cast"}
    /\ args_stdout \in BOOLEAN
    /\ header_written = FALSE
    /\ cast_size = <<Width, 24>>
    /\ units_in = <<>>
    /\ cast_lines = <<>>
    /\ file_lines = <<>>
    /\ frame_count = 0
    /\ output = NoOutput
    /\ last_event = "setup"
    /\ BufferIdle
    /\ PlayerIdle
    /\ CliIdle
    /\ ScorerIdle
    /\ ChainIdle
    /\ ArgsIdle

\* one data unit of the processor passing through the output stages that
\* get_output has built: TerminalPlayer, or CastWriter and FileWriter, or
\* FileWriter alone when the input is a .cast file
OutputData(data) ==
    /\ machine = "cast"
    /\ frame_count < MaxCastItems
    /\ units_in' = Append(units_in, data)
    /\ IF args_stdout
       THEN UNCHANGED <<header_written, cast_lines, file_lines>>
       ELSE IF args_input # "cast"
       THEN LET r == CastWriter_process(header_written, cast_size,
                                        Timestamp(frame_count), data)
            IN  /\ header_written' = r.header_written
                /\ cast_lines' = cast_lines \o r.lines
                /\ file_lines' = file_lines \o r.lines
       ELSE /\ file_lines' = Append(file_lines, RawLine(data))
            /\ UNCHANGED <<header_written, cast_lines>>
    /\ frame_count' = frame_count + 1
    /\ last_event' = "data"
    /\ UNCHANGED <<machine, output, playVars, cliVars, fnVars, chainVars, argVars,
                   args_input,
                   args_stdout, cast_size>>
    /\ UNCHANGED <<threshold, perceptual, cache_position, cache_style, first_frame,
                   prev_terminal, curr_terminal, ansi_input, current_cursor, current_style,
                   pipe_size, screen>>

\* a resize event of the processor passing through the output stages:
\* Pipe.on_resize of each stage, nothing is written
OutputResize(width, height) ==
    /\ machine = "cast"
    /\ frame_count < MaxCastItems
    /\ cast_size' = IF ~args_stdout /\ args_input # "cast"
                    THEN <<width, height>> ELSE cast_size
    /\ frame_count' = frame_count + 1
    /\ last_event' = "resize"
    /\ UNCHANGED <<machine, output, playVars, cliVars, fnVars, chainVars, argVars,
                   args_input,
                   args_stdout, header_written, units_in, cast_lines, file_lines>>
    /\ UNCHANGED <<threshold, perceptual, cache_position, cache_style, first_frame,
                   prev_terminal, curr_terminal, ansi_input, current_cursor, current_style,
                   pipe_size, screen>>

NextCast ==
    \/ \E data \in CastUnits : OutputData(data)
    \/ \E size \in ResizeSizes : OutputResize(size[1], size[2])

SpecCast == InitCast /\ [][NextCast]_vars

----------------------------------------------------------------------------
\* Properties of AnsiBuffer.  After the swap at the end of process,
\* curr_terminal holds the previous frame and prev_terminal the current one.

Range(seq) == {seq[i] : i \in 1 .. Len(seq)}

IsMove(tok) == tok.k = "move"

MovesOf(toks) == SelectSeq(toks, IsMove)

\* the indices of the glyphs of a unit, in order
GlyphIdx(toks) ==
    LET IsGlyphAt(i) == toks[i].k = "glyph"
    IN  SelectSeq([i \in 1 .. Len(toks) |-> i], IsGlyphAt)

\* the tokens a unit holds for its k-th changed cell, glyph excluded
Segment(toks, k) ==
    LET idx == GlyphIdx(toks)
    IN  SubSeq(toks, IF k = 1 THEN 1 ELSE idx[k - 1] + 1, idx[k] - 1)

ShownBefore(style) == [grid |-> curr_terminal, cursor |-> <<0, 0>>, style |-> style]

StyleDiffersByValue(style1, style2) ==
    \/ style1.fg # style2.fg
    \/ style1.bg # style2.bg
    \/ \E a \in Attributes : style1[a] # style2[a]

\* C1: in exact mode, for every setting of the two caches, the unit emitted
\* for a frame, applied to a terminal that shows the previous frame with the
\* cursor at home, yields the current frame cell by cell
C1_RoundTrip ==
    (last_event = "diff" /\ threshold = 0) =>
        \A style \in {DefaultStyle, MkStyle(Red, Blue, {"bold"})} :
            Apply(ShownBefore(style), output.toks).grid = prev_terminal

\* C2: the retained previous-frame buffer equals the grid the terminal
\* displays after every unit emitted so far
C2_BufferIsDisplayed == prev_terminal = screen.grid

\* C3: in perceptual mode a cell pair whose score equals the threshold
\* exactly is not reported as changed
C3_StrictThreshold ==
    (last_event = "diff" /\ threshold > 0) =>
        \A p \in Pos :
            visual_difference(curr_terminal[p], prev_terminal[p]) = threshold * ScoreUnit
                => p \notin Range(output.changed)

\* C4: in exact mode the changed coordinates are exactly the cells whose
\* glyph differs or whose style differs by value
C4_ExactChangedSet ==
    (last_event = "diff" /\ threshold = 0) =>
        Range(output.changed) =
            {p \in Pos : \/ curr_terminal[p].char # prev_terminal[p].char
                         \/ StyleDiffersByValue(curr_terminal[p].style,
                                                prev_terminal[p].style)}

C4_Witness ==
    /\ last_event = "diff"
    /\ threshold = 0
    /\ curr_terminal = BlankGrid
    /\ prev_terminal = [BlankGrid EXCEPT ![<<0, 0>>] = MkCell(MkStyle(Red, NoColor, {}), "A")]
    /\ Range(output.changed) = {<<0, 0>>}

\* the tokens of a full style rebuild hold a reset first, then exactly the
\* colours the style has and the attributes it sets
IsFullRebuild(toks, style) ==
    /\ Len(toks) >= 1
    /\ toks[1] = RESET_STYLE
    /\ {toks[i] : i \in 2 .. Len(toks)} =
            (IF style.fg # NoColor THEN {SET_FOREGROUND_RGB(style.fg)} ELSE {})
            \cup (IF style.bg # NoColor THEN {SET_BACKGROUND_RGB(style.bg)} ELSE {})
            \cup {AttrCode(a) : a \in {b \in Attributes : style[b]}}
    /\ Cardinality({toks[i] : i \in 2 .. Len(toks)}) = Len(toks) - 1

\* C9: without position caching every changed cell gets the absolute
\* cursor-position command of its 1-indexed (row, column) right before its
\* style and glyph; without style caching every changed cell gets a full
\* style rebuild
C9_CachingToggles ==
    last_event = "diff" =>
        LET toks == output.toks
            cells == output.changed
        IN  /\ Len(GlyphIdx(toks)) = Len(cells)
            /\ ~cache_position =>
                \A k \in 1 .. Len(cells) :
                    /\ Len(Segment(toks, k)) >= 1
                    /\ Segment(toks, k)[1] = MOVE_CURSOR(cells[k][2] + 1, cells[k][1] + 1)
                    /\ \A i \in 2 .. Len(Segment(toks, k)) : ~IsMove(Segment(toks, k)[i])
            /\ ~cache_style =>
                \A k \in 1 .. Len(cells) :
                    LET IsStyle(tok) == ~IsMove(tok)
                    IN  IsFullRebuild(SelectSeq(Segment(toks, k), IsStyle),
                                      prev_terminal[cells[k]].style)

C9_Witness ==
    /\ last_event = "diff"
    /\ ~cache_position
    /\ ~cache_style
    /\ Len(output.changed) >= 2
    /\ \A k \in 1 .. Len(output.changed) :
            prev_terminal[output.changed[k]].style = MkStyle(Red, NoColor, {"bold"})

\* C10: with position caching, when two horizontally adjacent cells with
\* equal styles are the changed cells of a frame, the unit holds exactly one
\* cursor-position command, the one of the left cell
C10_OneMoveForAdjacentPair ==
    (/\ last_event = "diff"
     /\ cache_position
     /\ Len(output.changed) = 2
     /\ output.changed[2] = <<output.changed[1][1] + 1, output.changed[1][2]>>
     /\ equal(prev_terminal[output.changed[1]].style,
              prev_terminal[output.changed[2]].style))
    => MovesOf(output.toks) =
            <<MOVE_CURSOR(output.changed[1][2] + 1, output.changed[1][1] + 1)>>

----------------------------------------------------------------------------
\* Properties of the renderers' state machines

\* C5: exactly the first frame after setup is emitted in full (AnsiBuffer
\* passes the blob through and keeps it as the reference, DiffEngine reports
\* every cell when it has no reference), every later frame is a diff against
\* the retained reference, and the no-reference state is never entered again
\* except through a forced keyframe
C5_FirstFrameFull ==
    /\ [](machine = "buffer" /\ last_event \in {"first", "diff"} =>
            /\ (output.kind = "full") = (frame_count = 1)
            /\ (output.kind = "diff") = (frame_count > 1)
            /\ output.kind = "full" => output.blob = prev_terminal /\ ~first_frame)
    /\ [](machine = "player" /\ last_event \in {"keyframe", "frame"} =>
            /\ reference_frame # <<>>
            /\ frame_count = 1 => changed_cells = ImageCells /\ reference_frame = last_frame
            /\ (last_event = "frame" /\ last_frame = reference_frame) => changed_cells = {})
    /\ [][~first_frame => ~first_frame']_vars
    /\ [][(reference_frame # <<>> /\ reference_frame' # reference_frame)
            => last_event' = "keyframe"]_vars

C5_Witness ==
    \/ machine = "buffer" /\ frame_count = 3 /\ output.kind = "diff"
    \/ /\ machine = "player" /\ frame_count = 2 /\ last_event = "frame"
       /\ changed_cells # {} /\ changed_cells # ImageCells

\* C6: in Player.play exactly the frames whose index is a multiple of
\* keyframe_interval are forced keyframes: their changed-cell set is the full
\* grid whatever their content, and after them the reference is that frame
C6_Keyframes ==
    (machine = "player" /\ last_event \in {"keyframe", "frame"}) =>
        LET index == frame_count - 1
        IN  /\ (last_event = "keyframe") = (index % keyframe_interval = 0)
            /\ last_event = "keyframe" =>
                    changed_cells = ImageCells /\ reference_frame = last_frame

C6_Witness ==
    /\ machine = "player"
    /\ last_event = "keyframe"
    /\ frame_count > 1
    /\ reference_before = last_frame
    /\ changed_cells = ImageCells

----------------------------------------------------------------------------
\* Properties of resize handling and of the session

GridOf(size) == (0 .. size[1] - 1) \X (0 .. size[2] - 1)

\* C7: a resize event with new dimensions re-initializes the previous-frame
\* buffer to the new dimensions and forces the next frame to be emitted in
\* full; the grids of a later diff have the current dimensions
C7_ResizeReinitializes ==
    /\ last_event = "resize" =>
            first_frame /\ DOMAIN prev_terminal = GridOf(pipe_size)
    /\ (last_event = "diff" /\ pipe_size \in ResizeSizes) =>
            /\ DOMAIN prev_terminal = GridOf(pipe_size)
            /\ DOMAIN curr_terminal = GridOf(pipe_size)

\* C8: on every exit path of a playback session that hid the cursor, the
\* terminal-restore sequence has been written exactly once
C8_RestoredExactlyOnce ==
    (machine = "cli" /\ pc = "terminated" /\ cursor_hidden) => restores = 1

----------------------------------------------------------------------------
\* Properties of style.diff

\* the codes of one colour channel that changes to the colour new
ChannelCodes(old, new, set_code, reset_code) ==
    IF old = new THEN {}
    ELSE IF new # NoColor THEN {set_code} ELSE {reset_code}

\* C11: with style caching, style.diff emits nothing for two styles equal by
\* value; a reset followed by the complete rebuild of the target style when
\* one of the seven attributes differs; and, when only colours differ, one
\* code per changed channel (truecolor set for a present colour, default
\* reset for an absent one) and nothing for an unchanged channel
C11_DiffPolicy ==
    (machine = "style" /\ result.fn = "diff") =>
        LET cur == arg1.style
            new == arg2.style
            toks == result.toks
            codes == ChannelCodes(cur.fg, new.fg,
                                  SET_FOREGROUND_RGB(new.fg), RESET_FOREGROUND)
                     \cup ChannelCodes(cur.bg, new.bg,
                                       SET_BACKGROUND_RGB(new.bg), RESET_BACKGROUND)
        IN  /\ cur = new => toks = <<>>
            /\ (\E a \in Attributes : cur[a] # new[a]) => IsFullRebuild(toks, new)
            /\ (cur # new /\ \A a \in Attributes : cur[a] = new[a]) =>
                    /\ Range(toks) = codes
                    /\ Len(toks) = Cardinality(codes)

C11_Witness ==
    /\ machine = "style"
    /\ result.fn = "diff"
    /\ arg1.style = MkStyle(Red, Blue, {"bold", "reverse"})
    /\ arg2.style = MkStyle(NoColor, Blue, {"bold", "reverse"})
    /\ result.toks = <<RESET_FOREGROUND>>

----------------------------------------------------------------------------
\* Properties of AnsiBuffer on frames without a change

\* C12: a frame whose every cell is unchanged against the retained previous
\* frame (as the same frame fed twice) yields a unit of zero bytes, the call
\* completes, the screen keeps its cells, and the frame after it is diffed
\* against the retained frame: its changed cells are the cells that differ
C12_UnchangedFrameEmitsNothing ==
    /\ [](last_event = "diff" =>
            /\ curr_terminal = prev_terminal => output.toks = <<>>
            /\ (\A p \in Pos :
                    ~AnsiBuffer_cells_different(curr_terminal[p], prev_terminal[p]))
                => (output.kind = "diff" /\ output.toks = <<>>))
    /\ [][(last_event' = "diff" /\ prev_terminal' = prev_terminal) =>
            (screen'.grid = screen.grid /\ frame_count' = frame_count + 1)]_vars
    /\ [][(last_event = "diff" /\ output.toks = <<>> /\ last_event' = "diff") =>
            LET differing == {p \in Pos : prev_terminal[p] # prev_terminal'[p]}
                changed == Range(output'.changed)
            IN  /\ curr_terminal' = prev_terminal
                /\ changed \subseteq differing
                /\ threshold = 0 => changed = differing
                /\ {p \in Pos : prev_terminal[p].char # prev_terminal'[p].char}
                        \subseteq changed]_vars

C12_Witness ==
    /\ machine = "buffer"
    /\ last_event = "diff"
    /\ curr_terminal = prev_terminal
    /\ prev_terminal # BlankGrid
    /\ output.kind = "diff"
    /\ output.toks = <<>>

\* C13: with args.perceptual false and a non-zero threshold the diff is
\* exact: the changed cells of a frame are the cells whose glyph or style
\* differs by value from the previous frame
C13_ExactWhenRequested ==
    (machine = "buffer" /\ last_event = "diff" /\ ~perceptual /\ threshold # 0) =>
        Range(output.changed) = {p \in Pos : curr_terminal[p] # prev_terminal[p]}

----------------------------------------------------------------------------
\* Properties of the visual-difference scorers

\* the colour objects a scorer compares channel by channel: visual_difference
\* swaps the channels of a reversed cell, the scorer of TerminalRenderer
\* compares the channels as they are
ComparedColors(fn, cell) ==
    IF fn = "visual_difference" /\ cell.style.reverse
    THEN [fg |-> cell.style.bg, bg |-> cell.style.fg]
    ELSE [fg |-> cell.style.fg, bg |-> cell.style.bg]

\* the largest value a channel term of the scorer takes
MaximalDistance(fn) ==
    IF fn = "visual_difference" THEN Normalization ELSE MaxRgbDistance

\* the score of 50 out of 100 in the unit of the scorer
HalfScore(fn) ==
    IF fn = "visual_difference" THEN 50 * ScoreUnit ELSE 2 * MaxRgbDistance

\* C14: in every colour comparison of a scorer, a colour absent on one side
\* and present on the other counts as the maximal distance, and two absent
\* colours as 0; an absent colour is never taken for black
C14_AbsentColourIsMaximal ==
    (machine = "scorer" /\ result.fn # "none") =>
        LET c1 == ComparedColors(result.fn, arg1)
            c2 == ComparedColors(result.fn, arg2)
        IN  /\ ((c1.fg = NoColor) # (c2.fg = NoColor)) =>
                    result.fg = MaximalDistance(result.fn)
            /\ ((c1.bg = NoColor) # (c2.bg = NoColor)) =>
                    result.bg = MaximalDistance(result.fn)
            /\ (c1.fg = NoColor /\ c2.fg = NoColor) => result.fg = 0
            /\ (c1.bg = NoColor /\ c2.bg = NoColor) => result.bg = 0

\* C15: two cells whose glyphs differ score at least 50 out of 100,
\* whatever their colours
C15_GlyphChangeScoresHalf ==
    (machine = "scorer" /\ result.fn # "none" /\ arg1.char # arg2.char) =>
        result.score >= HalfScore(result.fn)

\* C16: a cell with fg X, bg Y, not reversed scores 0 against the cell with
\* fg Y, bg X, reversed and the same glyph
C16_ReverseEquivalence ==
    (/\ machine = "scorer"
     /\ result.fn # "none"
     /\ arg1.char = arg2.char
     /\ ~arg1.style.reverse
     /\ arg2.style = [arg1.style EXCEPT !.fg = arg1.style.bg,
                                        !.bg = arg1.style.fg,
                                        !.reverse = TRUE])
    => result.score = 0

\* C17: a cell scores 0 against a cell equal to it by value, whether or not
\* the two hold the same style and colour objects
C17_Reflexive ==
    (machine = "scorer" /\ result.fn # "none" /\ arg1 = arg2) => result.score = 0

C17_Witness ==
    /\ machine = "scorer"
    /\ result.fn = "visual_difference"
    /\ ~same_objects
    /\ arg1 = MkCell(MkStyle(Red, NoColor, {"reverse"}), "B")
    /\ arg2 = arg1
    /\ result.score = 0

----------------------------------------------------------------------------
\* Properties of the cast output

\* the units CastWriter makes entries of
NonBlankUnits == SelectSeq(units_in, LAMBDA u : ~IsBlank(u))

\* data without the carriage return right before each line feed
WithoutInsertedCR(data) ==
    LET Kept(i) == ~(data[i] = "\r" /\ i < Len(data) /\ data[i + 1] = "\n")
        F[i \in 0 .. Len(data)] ==
            IF i = 0 THEN <<>>
            ELSE IF Kept(i) THEN Append(F[i - 1], data[i]) ELSE F[i - 1]
    IN  F[Len(data)]

\* C18: in the lines CastWriter yields the header is the first line and the
\* only header; every later line is an entry [time, "o", data]; a resize
\* event adds no line, and later units never bring the header back
C18_HeaderOnceAndFirst ==
    /\ [](machine = "cast" =>
            /\ \A i \in 1 .. Len(cast_lines) :
                    IF i = 1
                    THEN cast_lines[i].kind = "header" /\ cast_lines[i].version = 2
                    ELSE cast_lines[i].kind = "entry" /\ cast_lines[i].event = "o"
            /\ header_written <=> cast_lines # <<>>)
    /\ [][(machine = "cast" /\ last_event' = "resize") =>
            cast_lines' = cast_lines]_vars
    /\ [][(machine = "cast" /\ header_written) =>
            \A i \in Len(cast_lines) + 1 .. Len(cast_lines') :
                cast_lines'[i].kind = "entry"]_vars

C18_Witness ==
    /\ machine = "cast"
    /\ Len(cast_lines) = 3
    /\ cast_size # <<Width, 24>>
    /\ cast_lines[1].size = <<Width, 24>>
    /\ last_event = "resize"

\* C19: the entries of CastWriter are, in arrival order, one per unit that
\* is not empty or whitespace only; the data of an entry is its unit with a
\* carriage return put before each line feed and nothing else changed
C19_OneEntryPerUnit ==
    (machine = "cast" /\ ~args_stdout /\ args_input # "cast") =>
        LET entries == SelectSeq(cast_lines, LAMBDA l : l.kind = "entry")
        IN  /\ Len(entries) = Len(NonBlankUnits)
            /\ \A k \in 1 .. Len(entries) :
                LET data == entries[k].data
                    unit == NonBlankUnits[k]
                IN  /\ WithoutInsertedCR(data) = unit
                    /\ Len(data) = Len(unit)
                            + Cardinality({i \in 1 .. Len(unit) : unit[i] = "\n"})
                    /\ \A i \in 1 .. Len(data) :
                            data[i] = "\n" => (i > 1 /\ data[i - 1] = "\r")

C19_Witness ==
    /\ machine = "cast"
    /\ units_in = <<<<"x", "\n", "x">>, <<" ">>, <<"x", "\r", "\n">>>>
    /\ Len(cast_lines) = 3
    /\ cast_lines[2].data = <<"x", "\r", "\n", "x">>
    /\ cast_lines[3].data = <<"x", "\r", "\r", "\n">>

\* C20: an output file is a cast recording for every kind of input: its
\* first line is the version-2 header, every later line a 3-element entry
C20_FileIsCastRecording ==
    (machine = "cast" /\ ~args_stdout) =>
        \A i \in 1 .. Len(file_lines) :
            IF i = 1
            THEN file_lines[i].kind = "header" /\ file_lines[i].version = 2
            ELSE file_lines[i].kind = "entry"


\* ---------------------------------------------------------------------------
\* Chains of Pipe stages: the generator protocol of pipe/base.py
\* ---------------------------------------------------------------------------

MaxStages == 2

\* the content of a .cast file as CastReader reads it; a path that names no
\* file has the header "missing", an empty file the header ""
NoFile == [header |-> "missing", width |-> 0, height |-> 0, lines |-> <<>>]

CastFile(header, width, height, lines) ==
    [header |-> header, width |-> width, height |-> height, lines |-> lines]

\* one (timestamp, data) unit of a stream
Unit(ev, name, ts, val, width, height, file) ==
    [ev |-> ev, name |-> name, ts |-> ts, val |-> val,
     width |-> width, height |-> height, file |-> file]

NoUnit == Unit(FALSE, "", 0, <<>>, 0, 0, NoFile)

\* (ts, data) with data a string
Data(ts, val) == Unit(FALSE, "data", ts, val, 0, 0, NoFile)

\* (ts, filepath) as get_input hands it to the reader
Path(ts, file) == Unit(FALSE, "path", ts, <<>>, 0, 0, file)

\* (ts, Event(name, **kwargs)); val holds the keyword arguments other than
\* width and height (msg, count)
Event(ts, name, val, width, height) == Unit(TRUE, name, ts, val, width, height, NoFile)

StageKinds == {"EchoPipe", "TransformPipe", "EventGeneratorPipe", "EventConsumerPipe",
               "EventModifierPipe", "MultiYieldPipe", "CastReader", "TerminalPlayer"}

\* Pipe.__init__: a stage before its generator has been started
Pipe_init(kind, width_implied) ==
    [kind |-> kind, state |-> "new", pending |-> <<>>, raises |-> "",
     width |-> 80, width_implied |-> width_implied, height |-> 24,
     first_seen |-> FALSE, seen |-> <<>>, resized |-> <<>>]

\* what a generator body (process or a handler) does with one unit: the stage
\* afterwards, the units it yields in order, and the exception it raises after
\* the last of them ("" when it returns)
Outcome(st, outs, raises, how) == [st |-> st, outs |-> outs, raises |-> raises, how |-> how]

\* str.upper on the data of a unit
Upper(val) == [i \in 1..Len(val) |-> IF val[i] < 10 THEN val[i] + 10 ELSE val[i]]

RECURSIVE CastReader_entries(_, _)
\* the loop of CastReader.process over the lines after the header
CastReader_entries(lines, line_num) ==
    IF lines = <<>> THEN [outs |-> <<>>, raises |-> ""]
    ELSE LET line == Head(lines)
             rest == CastReader_entries(Tail(lines), line_num + 1)
         IN  IF line = "" THEN rest
             ELSE IF line = "bad" THEN [outs |-> <<>>, raises |-> "ValueError"]
             ELSE IF line = "o"
             THEN [outs |-> <<Data(line_num, <<line_num>>)>> \o rest.outs,
                   raises |-> rest.raises]
             ELSE rest

CastReader_process(st, u) ==
    IF u.file.header = "missing" THEN Outcome(st, <<>>, "FileNotFoundError", "process")
    ELSE IF u.file.header # "ok" THEN Outcome(st, <<>>, "ValueError", "process")
    ELSE LET r == CastReader_entries(u.file.lines, 2)
             resize == IF st.width_implied
                       THEN <<Event(0, "resize", <<>>, u.file.width, u.file.height)>>
                       ELSE <<>>
         IN  Outcome(st, resize \o r.outs, r.raises, "process")

\* (ts, PIL.Image) as VideoReader yields it; val stands for the text chafa
\* prints for the picture, width and height are img.size
Image(ts, val, width, height) == Unit(FALSE, "image", ts, val, width, height, NoFile)

\* HIDE_CURSOR + HOME_CURSOR + ansi_output + SHOW_CURSOR
full_output(val) == <<"h", "H">> \o val \o <<"s">>

\* ImageToAnsi.process yielding the first frame before its resize event
ImageToAnsi_process_data_first(st, u) ==
    IF ~st.first_seen
    THEN LET height == (st.width * u.height) \div (2 * u.width)
         IN  Outcome([st EXCEPT !.first_seen = TRUE, !.height = height],
                     <<Data(u.ts, full_output(u.val)),
                       Event(u.ts, "resize", <<>>, st.width, height)>>, "", "process")
    ELSE Outcome(st, <<Data(u.ts, full_output(u.val))>>, "", "process")

\* ImageToAnsi.process; first_seen is "canvas is not None", and the height
\* is int(width * (img_height / img_width) * 0.5)
ImageToAnsi_process(st, u) ==
    IF ~st.first_seen
    THEN LET height == (st.width * u.height) \div (2 * u.width)
         IN  Outcome([st EXCEPT !.first_seen = TRUE, !.height = height],
                     <<Event(u.ts, "resize", <<>>, st.width, height),
                       Data(u.ts, full_output(u.val))>>, "", "process")
    ELSE Outcome(st, <<Data(u.ts, full_output(u.val))>>, "", "process")

\* AnsiBuffer.process as a stage of the chain: the first frame goes out as
\* it is, a later one as its differential output, empty when the frame
\* repeats the one before
AnsiBuffer_process(st, u) ==
    IF ~st.first_seen
    THEN Outcome([st EXCEPT !.first_seen = TRUE, !.seen = <<u>>], <<u>>, "", "process")
    ELSE Outcome([st EXCEPT !.seen = <<u>>],
                 <<Data(u.ts, IF u.val = st.seen[1].val THEN <<>> ELSE u.val)>>,
                 "", "process")

\* the header line and an entry line of CastWriter as units of the chain
HeaderUnit(width, height) == Unit(FALSE, "header", 0, <<>>, width, height, NoFile)
EntryUnit(ts, val) == Unit(FALSE, "entry", ts, val, 0, 0, NoFile)

\* CastWriter.process as a stage of the chain; first_seen is header_written
CastWriter_stage_process(st, u) ==
    IF IsBlank(u.val) THEN Outcome(st, <<>>, "", "process")
    ELSE Outcome([st EXCEPT !.first_seen = TRUE],
                 (IF ~st.first_seen THEN <<HeaderUnit(st.width, st.height)>> ELSE <<>>)
                 \o <<EntryUnit(u.ts, replace_newlines(u.val))>>,
                 "", "process")

\* process of each kind of stage
Pipe_process(st, u) ==
    CASE st.kind = "TransformPipe" ->
           Outcome(st, <<[u EXCEPT !.val = Upper(@)]>>, "", "process")
      [] st.kind = "EventGeneratorPipe" ->
           IF ~st.first_seen
           THEN Outcome([st EXCEPT !.first_seen = TRUE],
                        <<Event(0, "resize", <<>>, 120, 40), u>>, "", "process")
           ELSE Outcome(st, <<u>>, "", "process")
      [] st.kind = "CastReader" -> CastReader_process(st, u)
      [] st.kind = "ImageToAnsi" -> ImageToAnsi_process(st, u)
      [] st.kind = "AnsiBuffer" -> AnsiBuffer_process(st, u)
      [] st.kind = "CastWriter" -> CastWriter_stage_process(st, u)
      [] st.kind = "EchoPipe" ->
           Outcome([st EXCEPT !.seen = Append(@, u)], <<u>>, "", "process")
      [] OTHER -> Outcome(st, <<u>>, "", "process")

\* Pipe.on_resize passing the event on without taking its size
Pipe_on_resize_keeping(st, u) ==
    Outcome(st, <<Event(u.ts, "resize", <<>>, u.width, u.height)>>, "", "on_resize")

\* Pipe.on_resize, the handler every stage inherits; resized is what the calls
\* of self.debug("resized", ...) have recorded
Pipe_on_resize(st, u) ==
    Outcome(IF u.width # st.width \/ u.height # st.height
            THEN [st EXCEPT !.width = u.width, !.height = u.height,
                            !.resized = Append(@, <<u.width, u.height>>)]
            ELSE st,
            <<Event(u.ts, "resize", <<>>, u.width, u.height)>>, "", "on_resize")

EventModifierPipe_on_resize(st, u) ==
    Outcome(st, <<Event(u.ts, "resize", <<>>, u.width * 2, u.height * 2)>>, "", "on_resize")

EventConsumerPipe_on_test(st, u) ==
    Outcome([st EXCEPT !.seen = Append(@, u)], <<>>, "", "on_test")

MultiYieldPipe_on_burst(st, u) ==
    Outcome(st, [i \in 1..u.val[1] |-> Data(u.ts + i - 1, <<i - 1>>)], "", "on_burst")

\* getattr(self, "on_" + event.name, None): the handler a stage has, "" for None
Handler(kind, name) ==
    IF name = "resize" THEN "on_resize"
    ELSE IF name = "test" /\ kind = "EventConsumerPipe" THEN "on_test"
    ELSE IF name = "burst" /\ kind = "MultiYieldPipe" THEN "on_burst"
    ELSE ""

\* Pipe.on_event passing every event on without looking for a handler
Pipe_on_event_without_handlers(st, u) ==
    Outcome(st, <<u>>, "", "forward")

Pipe_on_event(st, u) ==
    LET handler == Handler(st.kind, u.name)
    IN  IF handler = "on_resize"
        THEN IF st.kind = "EventModifierPipe"
             THEN EventModifierPipe_on_resize(st, u)
             ELSE Pipe_on_resize(st, u)
        ELSE IF handler = "on_test" THEN EventConsumerPipe_on_test(st, u)
        ELSE IF handler = "on_burst" THEN MultiYieldPipe_on_burst(st, u)
        ELSE Outcome(st, <<u>>, "", "forward")

\* the body of the loop of Pipe.__iter__
Dispatch(st, u) ==
    IF u.ev THEN Pipe_on_event(st, u) ELSE Pipe_process(st, u)

\* what the stages do, in the order they do it
Log(c, op, s, u, outs) ==
    [c EXCEPT !.log = Append(@, [op |-> op, stage |-> s, unit |-> u, outs |-> outs])]

SetStage(c, s, st) == [c EXCEPT !.stages[s] = st]

Result(c, res, unit, exc) == [c |-> c, res |-> res, unit |-> unit, exc |-> exc]

\* a list iterator that leaves out every other unit
List_next_skipping(items, c) ==
    IF c.pos + 1 < Len(items)
    THEN Result([c EXCEPT !.pos = @ + 2], "unit", items[c.pos + 2], "")
    ELSE Result(c, "stop", NoUnit, "")

\* next() on the iterator of the list the first stage reads
List_next(items, c) ==
    IF c.pos < Len(items)
    THEN Result([c EXCEPT !.pos = @ + 1], "unit", items[c.pos + 1], "")
    ELSE Result(c, "stop", NoUnit, "")

Pipe_enter(c, s) ==
    Log(SetStage(c, s, [c.stages[s] EXCEPT !.state = "running"]), "setup", s, NoUnit, <<>>)

\* Pipe.__exit__ returning true: teardown runs and the exception ends there
Pipe_exit_suppressing(c, s, res, exc) ==
    Result(Log(SetStage(c, s, [c.stages[s] EXCEPT !.state = "closed"]),
               "teardown", s, NoUnit, <<>>),
           "stop", NoUnit, "")

\* Pipe.__exit__ when the with block is left by the end of the input (res =
\* "stop") or by an exception (res = "raise"): teardown runs and, __exit__
\* returning None, the exception goes on
Pipe_exit(c, s, res, exc) ==
    Result(Log(SetStage(c, s, [c.stages[s] EXCEPT !.state = "closed"]),
               "teardown", s, NoUnit, <<>>),
           res, NoUnit, exc)

RECURSIVE Pipe_iter(_, _, _)
\* next() on the generator Pipe.__iter__ of stage s, stage 0 being the list
Pipe_iter(items, c, s) ==
    IF s = 0 THEN List_next(items, c)
    ELSE LET st == c.stages[s]
         IN  IF st.state = "closed" THEN Result(c, "stop", NoUnit, "")
             ELSE IF st.state = "new" THEN Pipe_iter(items, Pipe_enter(c, s), s)
             ELSE IF st.pending # <<>>
             THEN Result(Log(SetStage(c, s, [st EXCEPT !.pending = Tail(@)]),
                             "emit", s, Head(st.pending), <<>>),
                         "unit", Head(st.pending), "")
             ELSE IF st.raises # ""
             THEN Pipe_exit(Log(c, "raise", s, NoUnit, <<>>), s, "raise", st.raises)
             ELSE LET r == Pipe_iter(items, c, s - 1)
                  IN  IF r.res = "unit"
                      THEN LET d == Dispatch(r.c.stages[s], r.unit)
                           IN  Pipe_iter(items,
                                   Log(SetStage(r.c, s, [d.st EXCEPT !.pending = d.outs,
                                                                     !.raises = d.raises]),
                                       d.how, s, r.unit, d.outs),
                                   s)
                      ELSE Pipe_exit(r.c, s, r.res, r.exc)

\* the lists a chain reads
ChainItems ==
    { <<Data(0, <<1>>), Data(1, <<2>>)>>,
      <<Event(0, "resize", <<>>, 100, 50), Data(1, <<1>>),
        Event(2, "resize", <<>>, 100, 50)>>,
      <<Event(0, "test", <<1>>, 0, 0), Event(1, "test", <<2>>, 0, 0), Data(2, <<1>>)>>,
      <<Event(0, "burst", <<2>>, 0, 0), Data(10, <<1>>)>>,
      <<Event(0, "test", <<1>>, 0, 0), Event(1, "burst", <<2>>, 0, 0),
        Event(2, "unknown", <<7>>, 0, 0), Data(3, <<1>>)>>,
      <<Event(0, "unknown", <<7>>, 0, 0), Data(1, <<1>>), Event(2, "resize", <<>>, 80, 24)>>,
      <<Path(0, CastFile("ok", 100, 50, <<"o", "i", "", "o">>))>>,
      <<Path(0, CastFile("ok", 80, 24, <<"o", "bad", "o">>))>>,
      <<Path(0, CastFile("", 0, 0, <<>>))>> }

ChainStages == UNION { [1..n -> StageKinds] : n \in 1..MaxStages }

InitChain ==
    /\ machine = "chain"
    /\ \E items \in ChainItems, kinds \in ChainStages, width_implied \in BOOLEAN :
          /\ chain_cfg = [items |-> items, kinds |-> kinds]
          /\ chain = [pos |-> 0,
                      stages |-> [s \in 1..Len(kinds) |-> Pipe_init(kinds[s], width_implied)],
                      log |-> <<>>, received |-> <<>>, outcome |-> "running", exc |-> ""]
    /\ frame_count = 0
    /\ output = NoOutput
    /\ last_event = "setup"
    /\ BufferIdle
    /\ PlayerIdle
    /\ CliIdle
    /\ ScorerIdle
    /\ CastIdle
    /\ ArgsIdle

\* one turn of the loop that consumes the outermost stage: for _ in pipeline
ConsumerNext ==
    /\ machine = "chain"
    /\ chain.outcome = "running"
    /\ LET r == Pipe_iter(chain_cfg.items, chain, Len(chain.stages))
       IN  chain' = [r.c EXCEPT
                       !.received = IF r.res = "unit" THEN Append(@, r.unit) ELSE @,
                       !.outcome = IF r.res = "unit" THEN "running"
                                   ELSE IF r.res = "stop" THEN "exhausted" ELSE "raised",
                       !.exc = r.exc]
    /\ UNCHANGED <<machine, frame_count, bufVars, playVars, cliVars, fnVars, castVars,
                   chain_cfg, argVars>>

NextChain == ConsumerNext

SpecChain == InitChain /\ [][NextChain]_vars


DispatchOps == {"process", "on_resize", "on_test", "on_burst", "forward"}

\* what stage s has done with units, in order: the units it took from upstream
\* (with what it was going to yield for each) and the units it yielded
StageLog(s) ==
    SelectSeq(chain.log, LAMBDA e : e.stage = s /\ e.op \in DispatchOps \cup {"emit"})

UnitsOf(entries) == [i \in 1..Len(entries) |-> entries[i].unit]

\* the units stage s has taken from its upstream
Taken(s) == UnitsOf(SelectSeq(StageLog(s), LAMBDA e : e.op # "emit"))

\* the units stage s has handed downstream; stage 0 is the list
Yielded(s) ==
    IF s = 0 THEN SubSeq(chain_cfg.items, 1, chain.pos)
    ELSE UnitsOf(SelectSeq(StageLog(s), LAMBDA e : e.op = "emit"))

\* the index below j of the latest unit taken in a stage log, 0 if none
LastTaken(R, j) ==
    CHOOSE d \in 0..(j - 1) :
        /\ d = 0 \/ R[d].op # "emit"
        /\ \A k \in (d + 1)..(j - 1) : R[k].op = "emit"

\* C21: every stage takes exactly the units its upstream yields, in order and
\* one at a time; what it yields for a unit comes out in order and before
\* anything it yields for the next unit; and it takes the next unit only when
\* everything it yields for the current one has been taken from it
C21_StrictArrivalOrder ==
    machine = "chain" =>
        /\ chain.received = Yielded(Len(chain.stages))
        /\ \A s \in 1..Len(chain.stages) :
              /\ Taken(s) = Yielded(s - 1)
              /\ LET R == StageLog(s)
                 IN  \A j \in 1..Len(R) :
                        LET d == LastTaken(R, j)
                        IN  IF R[j].op = "emit"
                            THEN /\ d > 0
                                 /\ j - d <= Len(R[d].outs)
                                 /\ R[j].unit = R[d].outs[j - d]
                            ELSE IF d = 0 THEN j = 1
                                 ELSE j - d - 1 = Len(R[d].outs)

\* C21: a chain of two stages has run to the end of its input, a stage having
\* yielded two units for one unit and a stage nothing for one
C21_Witness ==
    /\ machine = "chain"
    /\ chain.outcome = "exhausted"
    /\ Len(chain.stages) = 2
    /\ Len(chain.received) >= 2
    /\ \E i, j \in 1..Len(chain.log) :
          /\ chain.log[i].op \in DispatchOps
          /\ chain.log[j].op \in DispatchOps
          /\ Len(chain.log[i].outs) = 2
          /\ Len(chain.log[j].outs) = 0


RECURSIVE Flatten(_)
Flatten(seqs) == IF seqs = <<>> THEN <<>> ELSE Head(seqs) \o Flatten(Tail(seqs))

\* everything stage s was going to yield for the units it has taken
OutputsOf(s) ==
    LET taken == SelectSeq(StageLog(s), LAMBDA e : e.op # "emit")
    IN  Flatten([i \in 1..Len(taken) |-> taken[i].outs])

\* C22: a unit that is not an event goes to process; an event goes to the
\* on_<name> handler of the stage when there is one (resize everywhere, test in
\* EventConsumerPipe, burst in MultiYieldPipe) and never to process, and the
\* stage yields what that handler yields: nothing for test, one resize event for
\* resize, count data units for burst; any other event is yielded as it came;
\* when the chain has run to its end every stage has yielded exactly that
C22_EventDispatch ==
    machine = "chain" =>
        /\ \A i \in 1..Len(chain.log) :
              LET e == chain.log[i]
                  u == e.unit
                  kind == chain_cfg.kinds[e.stage]
              IN  e.op \in DispatchOps =>
                     IF ~u.ev THEN e.op = "process"
                     ELSE IF u.name = "resize"
                     THEN /\ e.op = "on_resize"
                          /\ Len(e.outs) = 1
                          /\ e.outs[1].ev /\ e.outs[1].name = "resize"
                     ELSE IF u.name = "test" /\ kind = "EventConsumerPipe"
                     THEN e.op = "on_test" /\ e.outs = <<>>
                     ELSE IF u.name = "burst" /\ kind = "MultiYieldPipe"
                     THEN /\ e.op = "on_burst"
                          /\ Len(e.outs) = u.val[1]
                          /\ \A k \in 1..Len(e.outs) : ~e.outs[k].ev
                     ELSE e.op = "forward" /\ e.outs = <<u>>
        /\ chain.outcome = "exhausted" =>
              \A s \in 1..Len(chain.stages) : Yielded(s) = OutputsOf(s)

\* C22: a chain has run to its end in which an event was consumed by its
\* handler, an event made its handler yield two units, an event without a
\* handler was passed on and a data unit went to process
C22_Witness ==
    /\ machine = "chain"
    /\ chain.outcome = "exhausted"
    /\ \E i \in 1..Len(chain.log) :
          chain.log[i].op = "on_test" /\ chain.log[i].outs = <<>>
    /\ \E i \in 1..Len(chain.log) :
          chain.log[i].op = "on_burst" /\ Len(chain.log[i].outs) = 2
    /\ \E i \in 1..Len(chain.log) :
          chain.log[i].op = "forward" /\ chain.log[i].unit.name = "unknown"
    /\ \E i \in 1..Len(chain.log) :
          chain.log[i].op = "process" /\ chain.log[i].unit.name = "data"


\* the resize events stage s has taken
ResizesTaken(s) == SelectSeq(Taken(s), LAMBDA u : u.ev /\ u.name = "resize")

RECURSIVE Changes(_, _)
\* the sizes in a sequence of resize events that differ from the size before
Changes(events, size) ==
    IF events = <<>> THEN <<>>
    ELSE LET new == <<Head(events).width, Head(events).height>>
         IN  IF new = size THEN Changes(Tail(events), size)
             ELSE <<new>> \o Changes(Tail(events), new)

\* the stages a resize event of the input list passes through untouched
DefaultResizeKinds == {"EchoPipe", "TransformPipe", "EventConsumerPipe",
                       "MultiYieldPipe", "TerminalPlayer"}

\* C23: a stage with the default resize handler holds the width and height of
\* the last resize event it has taken (80x24 of Pipe.__init__ before the first),
\* has recorded a change for exactly the events whose size differed from the
\* size it held, and has yielded for every resize event, equal or not, one
\* resize event of the same timestamp, width and height; so when a resize event
\* of the input has come out of a chain of such stages, every stage holds its size
C23_DefaultResize ==
    machine = "chain" =>
        /\ \A s \in 1..Len(chain.stages) :
              chain_cfg.kinds[s] # "EventModifierPipe" =>
                 LET st == chain.stages[s]
                     taken == ResizesTaken(s)
                 IN  /\ <<st.width, st.height>> =
                           IF taken = <<>> THEN <<80, 24>>
                           ELSE <<taken[Len(taken)].width, taken[Len(taken)].height>>
                     /\ st.resized = Changes(taken, <<80, 24>>)
        /\ \A i \in 1..Len(chain.log) :
              LET e == chain.log[i]
              IN  e.op = "on_resize" /\ chain_cfg.kinds[e.stage] # "EventModifierPipe" =>
                     e.outs = <<Event(e.unit.ts, "resize", <<>>, e.unit.width, e.unit.height)>>
        /\ (/\ \A s \in 1..Len(chain.stages) : chain_cfg.kinds[s] \in DefaultResizeKinds
            /\ chain.received # <<>>
            /\ chain.received[Len(chain.received)].ev
            /\ chain.received[Len(chain.received)].name = "resize") =>
              \A s \in 1..Len(chain.stages) :
                 /\ chain.stages[s].width = chain.received[Len(chain.received)].width
                 /\ chain.stages[s].height = chain.received[Len(chain.received)].height

\* C23: two stages with the default handler have passed on a resize event that
\* changed their size and then one of the size they held by then
C23_Witness ==
    /\ machine = "chain"
    /\ Len(chain.stages) = 2
    /\ \A s \in 1..2 :
          /\ chain_cfg.kinds[s] \in DefaultResizeKinds
          /\ Len(ResizesTaken(s)) = 2
          /\ chain.stages[s].resized = << <<100, 50>> >>
          /\ chain.stages[s].width = 100
    /\ Len(SelectSeq(chain.received, LAMBDA u : u.ev /\ u.name = "resize")) = 2


\* the positions in the log of an operation of stage s
LogIndices(op, s) == {i \in 1..Len(chain.log) : chain.log[i].op = op /\ chain.log[i].stage = s}

Raises == {i \in 1..Len(chain.log) : chain.log[i].op = "raise"}

\* C24: an exception raised in a stage reaches the loop that consumes the
\* outermost stage in the same call of next, as the exception that was raised;
\* after it no stage takes or yields a unit; and the stage that raised and
\* every stage downstream of it, which were all set up, have had their teardown
\* run once, after the exception was raised: with the reader, the first stage,
\* raising, these are all the stages of the chain
C24_FailurePropagates ==
    machine = "chain" =>
        /\ Raises # {} <=> chain.outcome = "raised"
        /\ \A i \in Raises :
              /\ Raises = {i}
              /\ chain.exc = chain.stages[chain.log[i].stage].raises
              /\ chain.exc \in {"ValueError", "FileNotFoundError"}
              /\ \A j \in (i + 1)..Len(chain.log) : chain.log[j].op = "teardown"
              /\ \A s \in chain.log[i].stage..Len(chain.stages) :
                    /\ LogIndices("setup", s) # {}
                    /\ chain.stages[s].state = "closed"
                    /\ \E j \in LogIndices("teardown", s) :
                          j > i /\ LogIndices("teardown", s) = {j}

\* C24: CastReader has raised at a line of the file after an entry had reached
\* the terminal player, and the player's teardown has run
C24_Witness ==
    /\ machine = "chain"
    /\ chain.outcome = "raised"
    /\ chain.exc = "ValueError"
    /\ chain_cfg.kinds = <<"CastReader", "TerminalPlayer">>
    /\ chain.received # <<>>
    /\ LogIndices("teardown", 2) # {}


\* ---------------------------------------------------------------------------
\* AnsiBuffer under thresholds that --threshold accepts (type=float, no range)
\* ---------------------------------------------------------------------------

ConfigThresholds == {-3, 5, 150}

InitConfig == InitBufferWith(ConfigThresholds)

SpecConfig == InitConfig /\ [][NextRepeat]_vars

\* C25: with a threshold below 0 or above 100 the stage ends in an error
\* before it has emitted anything, so no output is ever there
C25_ConfigErrorsBeforeOutput ==
    (machine = "buffer" /\ (threshold < 0 \/ threshold > 100)) => output = NoOutput


\* ---------------------------------------------------------------------------
\* parse_args (args.py) and build_pipeline (pipeline.py)
\* ---------------------------------------------------------------------------

\* the input paths of a command line
InputPaths == {"video.mp4", "recording.cast", "-",
               "https://example.com/stream.cast", "https://example.com/video"}

\* input_path.startswith(("http://", "https://"))
StartsWithHttp(path) ==
    path \in {"https://example.com/stream.cast", "https://example.com/video"}

\* path.endswith(".cast")
EndsWithCast(path) == path \in {"recording.cast", "https://example.com/stream.cast", "output.cast"}

\* a value an option was given is <<value>>, None is <<>>
None == <<>>

\* Implied wrapping the default whatever was specified
Implied_always(default, specified) == [value |-> default, implied |-> TRUE]

\* Implied(default, specified): the specified value as a plain object when
\* there is one, the default wrapped as implied otherwise
Implied(default, specified) ==
    IF specified # None
    THEN [value |-> specified[1], implied |-> FALSE]
    ELSE [value |-> default, implied |-> TRUE]

\* a plain object, for which implied() is false
Plain(value) == [value |-> value, implied |-> FALSE]

\* implied(o)
implied(o) == o.implied

\* the command lines: what argparse finds for every option, and whether
\* sys.stdout is a terminal
CommandLines ==
    [input : InputPaths,
     output : {None, <<"-">>, <<"output.cast">>},
     threshold : {None, <<150>>},
     input_format : {None, <<"video">>, <<"cast">>, <<"ansi">>},
     no_diff : BOOLEAN,
     no_realtime : BOOLEAN,
     no_perceptual : BOOLEAN,
     debug : BOOLEAN,
     debug_args : BOOLEAN,
     log_file : BOOLEAN,
     isatty : BOOLEAN]

detect_input_format(input_path) ==
    IF input_path = "-" THEN "ansi"
    ELSE IF StartsWithHttp(input_path)
    THEN IF EndsWithCast(input_path) THEN "cast" ELSE "video"
    ELSE IF EndsWithCast(input_path) THEN "cast"
    ELSE "video"

\* _set_input_format: args.input_format
set_input_format(input, input_format) ==
    Implied(detect_input_format(input), input_format)

\* _set_output_flags: args.stdout
set_output_flags(destination) ==
    IF destination.value = "-" /\ implied(destination) THEN Implied(TRUE, None) ELSE Plain(FALSE)

\* _set_debug: args.debug, which store_true has made False or True before
set_debug(log_file, debug_args, debug_flag) ==
    IF log_file \/ debug_args THEN Implied(TRUE, <<debug_flag>>) ELSE Plain(debug_flag)

\* _set_realtime: args.realtime
set_realtime(stdout, isatty, flag) ==
    LET output_is_a_tty == stdout.value /\ isatty
    IN  Implied(output_is_a_tty, flag)

\* _set_perceptual: args.perceptual
set_perceptual(input_format, flag) ==
    LET text_format == input_format.value \in {"cast", "ansi"}
    IN  Implied(~text_format, flag)

\* parse_args: the namespace argparse fills, then the five helpers
parse_args(cl) ==
    LET destination == Implied("-", cl.output)
        input_format == set_input_format(cl.input, cl.input_format)
        stdout == set_output_flags(destination)
    IN  [input |-> cl.input,
         output |-> destination,
         threshold |-> Implied(5, cl.threshold),
         no_diff |-> cl.no_diff,
         input_format |-> input_format,
         stdout |-> stdout,
         debug |-> set_debug(cl.log_file, cl.debug_args, cl.debug),
         realtime |-> set_realtime(stdout, cl.isatty,
                                   IF cl.no_realtime THEN <<FALSE>> ELSE None),
         perceptual |-> set_perceptual(input_format,
                                       IF cl.no_perceptual THEN <<FALSE>> ELSE None)]

get_input(a) ==
    IF EndsWithCast(a.input) THEN <<"CastReader">> ELSE <<"VideoReader", "ImageToAnsi">>

get_processor(input_pipe, a) ==
    IF ~a.no_diff THEN Append(input_pipe, "AnsiBuffer") ELSE input_pipe

get_output(processor, a) ==
    IF a.stdout.value THEN Append(processor, "TerminalPlayer")
    ELSE IF ~EndsWithCast(a.input) THEN processor \o <<"CastWriter", "FileWriter">>
    ELSE Append(processor, "FileWriter")

build_pipeline(a) == get_output(get_processor(get_input(a), a), a)

InitArgs ==
    /\ machine = "args"
    /\ argv \in CommandLines
    /\ args = <<>>
    /\ pipeline = <<>>
    /\ frame_count = 0
    /\ output = NoOutput
    /\ last_event = "setup"
    /\ BufferIdle
    /\ PlayerIdle
    /\ CliIdle
    /\ ScorerIdle
    /\ CastIdle
    /\ ChainIdle

ArgsUnchanged ==
    UNCHANGED <<machine, frame_count, bufVars, playVars, cliVars, fnVars, castVars,
                chainVars, argv>>

ParseArgs ==
    /\ machine = "args"
    /\ args = <<>>
    /\ args' = parse_args(argv)
    /\ UNCHANGED pipeline
    /\ ArgsUnchanged

BuildPipeline ==
    /\ machine = "args"
    /\ args # <<>>
    /\ pipeline = <<>>
    /\ pipeline' = build_pipeline(args)
    /\ UNCHANGED args
    /\ ArgsUnchanged

NextArgs == ParseArgs \/ BuildPipeline

SpecArgs == InitArgs /\ [][NextArgs]_vars

\* C26: after parse_args, args.stdout is true when the output is "-" and is
\* implied exactly when that "-" is the implied default; it is false when the
\* output is a file path
C26_StdoutForDash ==
    (machine = "args" /\ args # <<>>) =>
        IF args.output.value = "-"
        THEN /\ args.stdout.value = TRUE
             /\ implied(args.stdout) = implied(args.output)
        ELSE args.stdout.value = FALSE

\* C27: with --input-format the format is the given one and not implied and
\* the pipeline starts with the reader of that format; without it the format is
\* the detected one, implied, and the reader is the detected format's
C27_InputFormatOverrides ==
    (machine = "args" /\ pipeline # <<>>) =>
        /\ IF argv.input_format # None
           THEN args.input_format = Plain(argv.input_format[1])
           ELSE args.input_format = [value |-> detect_input_format(argv.input),
                                     implied |-> TRUE]
        /\ args.input_format.value = "cast" => pipeline[1] = "CastReader"
        /\ args.input_format.value = "video" => pipeline[1] = "VideoReader"

BeforeGlyph(k, style) ==
    Apply(ShownBefore(style), SubSeq(output.toks, 1, GlyphIdx(output.toks)[k] - 1))

\* C29: with position caching the glyph of every changed cell of a unit is
\* written with the terminal's cursor on that cell
C29_GlyphLandsOnTarget ==
    (machine = "buffer" /\ last_event = "diff" /\ cache_position) =>
        \A k \in 1..Len(output.changed) :
            BeforeGlyph(k, DefaultStyle).cursor = output.changed[k]


\* frames whose first two cells hold any two of a few styled cells
TrackCells ==
    {BlankCell,
     MkCell(MkStyle(Red, NoColor, {"bold"}), "A"),
     MkCell(MkStyle(Red, Blue, {}), "B"),
     MkCell(MkStyle(NoColor, Yellow, {"reverse"}), "C")}

TrackFrames ==
    {[BlankGrid EXCEPT ![<<0, 0>>] = c1, ![<<1, 0>>] = c2] : c1, c2 \in TrackCells}

NextTrack ==
    \/ \E blob \in TrackFrames : ProcessFirst(blob)
    \/ \E blob \in TrackFrames : ProcessDiff(blob)

SpecTrack == InitBuffer /\ [][NextTrack]_vars

\* the styles a terminal may have been left in by earlier output
LeftStyles == {DefaultStyle, MkStyle(Red, Blue, {"bold"}), MkStyle(NoColor, Yellow, {"reverse"})}

\* C30: whatever style earlier output has left active on the terminal, when
\* the glyph of a changed cell is written the terminal's active style equals
\* the cell's style by value, with style caching on or off, and the codes of
\* the first changed cell of a unit are a full reset and rebuild
C30_StyleTracked ==
    (machine = "buffer" /\ last_event = "diff") =>
        /\ \A k \in 1..Len(output.changed), style \in LeftStyles :
              BeforeGlyph(k, style).style = prev_terminal[output.changed[k]].style
        /\ output.changed # <<>> =>
              IsFullRebuild(SelectSeq(Segment(output.toks, 1), LAMBDA tok : ~IsMove(tok)),
                            prev_terminal[output.changed[1]].style)

\* C30: with style caching, the third frame has changed a bold cell and then
\* its right neighbour, which is not bold and has another background
C30_Witness ==
    /\ machine = "buffer"
    /\ last_event = "diff"
    /\ cache_style
    /\ frame_count = 3
    /\ output.changed = << <<0, 0>>, <<1, 0>> >>
    /\ prev_terminal[<<0, 0>>] = MkCell(MkStyle(Red, NoColor, {"bold"}), "A")
    /\ prev_terminal[<<1, 0>>] = MkCell(MkStyle(Red, Blue, {}), "B")


\* C39: after parse_args, args.debug is true whenever --log-file or
\* --debug-args was given
C39_LogFileImpliesDebug ==
    (machine = "args" /\ args # <<>> /\ (argv.log_file \/ argv.debug_args)) =>
        args.debug.value = TRUE


\* C35: every cell whose glyph differs between the previous frame and the
\* frame just processed is among the changed cells of the unit, whatever the
\* threshold and whatever the score of the two cells
C35_GlyphChangeAlwaysEmitted ==
    (machine = "buffer" /\ last_event = "diff") =>
        \A p \in Pos :
            prev_terminal[p].char # curr_terminal[p].char => p \in Range(output.changed)

\* C35: a cell whose glyph changed has been emitted under a threshold above
\* the score of the two cells
C35_Witness ==
    /\ machine = "buffer"
    /\ last_event = "diff"
    /\ threshold > 100
    /\ \E p \in Range(output.changed) :
          /\ prev_terminal[p].char # curr_terminal[p].char
          /\ prev_terminal[p].style = curr_terminal[p].style
          /\ visual_difference(prev_terminal[p], curr_terminal[p]) < threshold * ScoreUnit


\* C36: with a threshold above 0, a cell whose glyph, colours and reverse are
\* the same in the previous frame and in the frame just processed and whose
\* bold, dim, italic, underline, blink or strike differs is among the changed
\* cells of the unit
C36_AttributeChangeEmitted ==
    (machine = "buffer" /\ last_event = "diff" /\ threshold > 0) =>
        \A p \in Pos :
            (/\ prev_terminal[p].char = curr_terminal[p].char
             /\ prev_terminal[p].style.fg = curr_terminal[p].style.fg
             /\ prev_terminal[p].style.bg = curr_terminal[p].style.bg
             /\ prev_terminal[p].style.reverse = curr_terminal[p].style.reverse
             /\ \E a \in Attributes \ {"reverse"} :
                   prev_terminal[p].style[a] # curr_terminal[p].style[a])
            => p \in Range(output.changed)


\* ---------------------------------------------------------------------------
\* AnsiBuffer over frames whose colours lie below the threshold of each other
\* ---------------------------------------------------------------------------

DriftThresholds == {5, 30}

\* one glyph in colours whose neighbours score under 30 percent and whose
\* ends score above it
DriftCells ==
    {MkCell(DefaultStyle, "A"),
     MkCell(MkStyle(Red, NoColor, {}), "A"),
     MkCell(MkStyle(Yellow, NoColor, {}), "A")}

DriftFrames == UniformFrames(DriftCells) \cup SingleFrames(DriftCells)

InitDrift == InitBufferWith(DriftThresholds)

NextDrift ==
    \/ \E blob \in DriftFrames : ProcessFirst(blob)
    \/ \E blob \in DriftFrames : ProcessDiff(blob)

SpecDrift == InitDrift /\ [][NextDrift]_vars

\* C31: with absolute cursor positioning, after every frame the score of what
\* the terminal shows in a cell against the cell of the latest frame is at
\* most the threshold
C31_BoundedDrift ==
    (machine = "buffer" /\ last_event \in {"first", "diff"} /\ ~cache_position) =>
        \A p \in Pos :
            visual_difference(screen.grid[p], prev_terminal[p]) <= threshold * ScoreUnit


\* ---------------------------------------------------------------------------
\* AnsiBuffer feeding TerminalPlayer in realtime playback (args.realtime true)
\* ---------------------------------------------------------------------------

\* AnsiBuffer.process on a later frame, then TerminalPlayer.process finding
\* current_time > timestamp: the unit is counted as skipped and passed on
\* without being written
ProcessDiffBehind(blob) ==
    /\ machine = "buffer"
    /\ ~first_frame
    /\ frame_count < MaxFrames
    /\ ansi_input' = blob
    /\ LET parsed == Feed(curr_terminal, blob)
           st0 == [cursor |-> <<0, 0>>, style |-> <<>>, out |-> <<>>, changed |-> <<>>]
           st == ProcessLoop(st0, 0, prev_terminal, parsed)
       IN  /\ current_cursor' = st.cursor
           /\ current_style' = st.style
           /\ prev_terminal' = parsed
           /\ curr_terminal' = prev_terminal
           /\ output' = [kind |-> "diff", toks |-> st.out, blob |-> <<>>,
                        changed |-> st.changed]
    /\ frame_count' = frame_count + 1
    /\ last_event' = "skipped"
    /\ UNCHANGED <<machine, threshold, perceptual, cache_position, cache_style,
                   first_frame, pipe_size, screen, playVars, cliVars, fnVars, castVars,
                   chainVars, argVars>>

NextRealtime ==
    \/ \E blob \in RepeatFrames : ProcessFirst(blob)
    \/ \E blob \in RepeatFrames : ProcessDiff(blob)
    \/ \E blob \in RepeatFrames : ProcessDiffBehind(blob)

SpecRealtime == InitBuffer /\ [][NextRealtime]_vars

\* C32: in exact mode with absolute cursor positioning, after every frame of
\* a realtime playback, the player on time or behind, the terminal's grid
\* equals the previous-frame buffer of AnsiBuffer
C32_EveryUnitWritten ==
    (machine = "buffer" /\ last_event \in {"first", "diff", "skipped"}
        /\ threshold = 0 /\ ~cache_position) =>
        screen.grid = prev_terminal


\* C33: in Player.play, after every frame, each cell the terminal shows
\* corresponds to the current frame: the pixels it was drawn from do not
\* count as changed against the frame's pixels of that cell
C33_DisplayFollowsFrame ==
    (machine = "player" /\ last_event \in {"keyframe", "frame"}) =>
        \A c \in ImageCells : ~cell_changed(last_frame, displayed, c[1], c[2])


\* ---------------------------------------------------------------------------
\* Sessions with frames that do not write every cell (the data units of a
\* cast read by CastReader are such frames)
\* ---------------------------------------------------------------------------

PartialCells ==
    {MkCell(DefaultStyle, "A"), MkCell(MkStyle(Red, NoColor, {}), "B")}

\* the first k cells from the home position, row by row
Prefix(k) == {p \in Pos : p[2] * Width + p[1] < k}

PartialFrames ==
    {[p \in Prefix(k) |-> c] : k \in 1 .. Width * Height - 1, c \in PartialCells}

NextPartial ==
    \/ \E blob \in UniformFrames(PartialCells) : ProcessFirst(blob)
    \/ \E blob \in UniformFrames(PartialCells) \cup PartialFrames : ProcessDiff(blob)

SpecPartial == InitBuffer /\ [][NextPartial]_vars

\* C34: after the diff of frame n, the grid frame n was parsed into holds,
\* in every cell the frame did not write, a blank or what frame n-1 had
\* there: no cell of an older frame is left over in it
C34_NoLeftoverCell ==
    (machine = "buffer" /\ last_event = "diff") =>
        \A p \in Pos \ DOMAIN ansi_input :
            prev_terminal[p] \in {BlankCell, curr_terminal[p]}


\* ---------------------------------------------------------------------------
\* The lifecycle of the stages: consumers that stop early, and the consumer
\* of cli.main that enters the stage before it iterates over it
\* ---------------------------------------------------------------------------

RECURSIVE Generator_close(_, _)
\* the generator of stage s is finalized while suspended at a yield:
\* GeneratorExit leaves the with block of Pipe.__iter__, teardown runs, and
\* the generator it was reading, dropped with the frame, is finalized next.
\* A generator that never started or has ended runs nothing.
Generator_close(c, s) ==
    IF s = 0 THEN c
    ELSE IF c.stages[s].state = "running"
         THEN Generator_close(
                  Log(SetStage(c, s, [c.stages[s] EXCEPT !.state = "closed"]),
                      "teardown", s, NoUnit, <<>>),
                  s - 1)
         ELSE Generator_close(c, s - 1)

\* the break of a loop over the outermost stage: the generator is dropped
\* while suspended; whether it is finalized there is up to the collector
ConsumerBreak(finalized) ==
    /\ machine = "chain"
    /\ chain.outcome = "running"
    /\ chain.received # <<>>
    /\ LET c == IF finalized THEN Generator_close(chain, Len(chain.stages)) ELSE chain
       IN  chain' = [c EXCEPT !.outcome = "stopped"]
    /\ UNCHANGED <<machine, frame_count, bufVars, playVars, cliVars, fnVars, castVars,
                   chain_cfg, argVars>>

\* with peek_pipe: for _ in peek_pipe: break -- Pipe.__enter__ runs setup,
\* the loop starts the generator of Pipe.__iter__, takes one unit and
\* breaks, and Pipe.__exit__ runs teardown on the way out
ConsumerPeek(finalized) ==
    /\ machine = "chain"
    /\ chain.outcome = "running"
    /\ chain.log = <<>>
    /\ LET n == Len(chain.stages)
           entered == Log(chain, "setup", n, NoUnit, <<>>)
           r == Pipe_iter(chain_cfg.items, entered, n)
           left == IF r.res = "unit" /\ finalized THEN Generator_close(r.c, n) ELSE r.c
           exited == Log(SetStage(left, n, [left.stages[n] EXCEPT !.state = "closed"]),
                         "teardown", n, NoUnit, <<>>)
       IN  chain' = [exited EXCEPT
                       !.received = IF r.res = "unit" THEN Append(@, r.unit) ELSE @,
                       !.outcome = IF r.res = "unit" THEN "stopped"
                                   ELSE IF r.res = "stop" THEN "exhausted" ELSE "raised",
                       !.exc = r.exc]
    /\ UNCHANGED <<machine, frame_count, bufVars, playVars, cliVars, fnVars, castVars,
                   chain_cfg, argVars>>

NextLifecycle ==
    \/ ConsumerNext
    \/ \E finalized \in BOOLEAN : ConsumerBreak(finalized)
    \/ \E finalized \in BOOLEAN : ConsumerPeek(finalized)

SpecLifecycle == InitChain /\ [][NextLifecycle]_vars

\* C37: every stage that has done anything was set up exactly once, before
\* its first process or on_event call, and is torn down at most once, after
\* its last call; once the iteration is over (input exhausted, exception,
\* or consumer stopped early) every stage that was set up has been torn down
C37_LifecycleOnce ==
    machine = "chain" =>
        \A s \in 1 .. Len(chain.stages) :
            LET setups == LogIndices("setup", s)
                teardowns == LogIndices("teardown", s)
                calls == {i \in 1 .. Len(chain.log) :
                            chain.log[i].stage = s /\ chain.log[i].op \in DispatchOps}
            IN  /\ Cardinality(setups) <= 1
                /\ Cardinality(teardowns) <= 1
                /\ calls # {} => Cardinality(setups) = 1
                /\ \A i \in calls : (\A j \in setups : j < i) /\ (\A j \in teardowns : i < j)
                /\ teardowns # {} => setups # {}
                /\ (chain.outcome # "running" /\ setups # {}) => Cardinality(teardowns) = 1


\* ---------------------------------------------------------------------------
\* Recording a video: ImageToAnsi, AnsiBuffer unless --no-diff, CastWriter
\* ---------------------------------------------------------------------------

RecordChains ==
    {<<"ImageToAnsi", "CastWriter">>, <<"ImageToAnsi", "AnsiBuffer", "CastWriter">>}

\* the frame sizes of a video; the ratios are exact in binary
ImageSizes == {<<160, 120>>, <<64, 64>>, <<128, 16>>}

FrameTexts == {<<"x">>, <<"x", "\n", "x">>}

\* the frames VideoReader decodes from one video
RecordItems ==
    UNION {{[i \in 1..n |-> Image(i - 1, vals[i], size[1], size[2])] :
                vals \in [1..n -> FrameTexts], size \in ImageSizes} : n \in 1..MaxUnits}

InitRecord ==
    /\ machine = "chain"
    /\ \E items \in RecordItems, kinds \in RecordChains, width_implied \in BOOLEAN :
          /\ chain_cfg = [items |-> items, kinds |-> kinds]
          /\ chain = [pos |-> 0,
                      stages |-> [s \in 1..Len(kinds) |-> Pipe_init(kinds[s], width_implied)],
                      log |-> <<>>, received |-> <<>>, outcome |-> "running", exc |-> ""]
    /\ frame_count = 0
    /\ output = NoOutput
    /\ last_event = "setup"
    /\ BufferIdle
    /\ PlayerIdle
    /\ CliIdle
    /\ ScorerIdle
    /\ CastIdle
    /\ ArgsIdle

SpecRecord == InitRecord /\ [][NextChain]_vars

\* the resize events among units
ResizesIn(units) == SelectSeq(units, LAMBDA u : u.ev /\ u.name = "resize")

\* the headers the last stage has yielded, each with the log index of the
\* process call that made it
HeaderCalls ==
    {i \in 1..Len(chain.log) :
        /\ chain.log[i].stage = Len(chain.stages)
        /\ chain.log[i].op = "process"
        /\ \E k \in 1..Len(chain.log[i].outs) : chain.log[i].outs[k].name = "header"}

\* the resize events the last stage has handled before log index i
ResizeCallsBefore(i) ==
    {j \in 1..(i - 1) : chain.log[j].stage = Len(chain.stages)
                        /\ chain.log[j].op = "on_resize"}

\* C38: the header CastWriter yields has the width and height of the last
\* resize event it handled before its first non-empty data unit; ImageToAnsi
\* yields its resize event exactly once and before the data of the first
\* frame; every later stage takes that event before any data; and the
\* header never has the default height of 24 rows when the event had another
C38_HeaderHasLastResize ==
    (machine = "chain" /\ chain_cfg.kinds \in RecordChains) =>
        /\ Len(ResizesIn(Yielded(1))) <= 1
        /\ Yielded(1) # <<>> => Yielded(1)[1].ev /\ Yielded(1)[1].name = "resize"
        /\ \A s \in 2..Len(chain.stages) :
              /\ ResizesIn(Taken(s)) = ResizesIn(Yielded(1))
              /\ Taken(s) # <<>> => Taken(s)[1].ev
        /\ Cardinality(HeaderCalls) <= 1
        /\ \A i \in HeaderCalls :
              LET header == chain.log[i].outs[1]
                  before == ResizeCallsBefore(i)
              IN  /\ before # {}
                  /\ \A j \in before :
                        (\A k \in before : k <= j) =>
                            /\ header.width = chain.log[j].unit.width
                            /\ header.height = chain.log[j].unit.height
                            /\ header.height = chain.stages[1].height

\* C38: a recording has run to its end through AnsiBuffer, the header is
\* out, a repeated frame gave an empty unit, and the height of the header
\* is not the default
C38_Witness ==
    /\ machine = "chain"
    /\ chain_cfg.kinds = <<"ImageToAnsi", "AnsiBuffer", "CastWriter">>
    /\ chain.outcome = "exhausted"
    /\ \E i \in HeaderCalls :
          /\ chain.log[i].outs[1].height # 24
          /\ chain.log[i].outs[1].height = 30
    /\ \E i \in 1..Len(chain.log) :
          /\ chain.log[i].stage = 3 /\ chain.log[i].op = "process"
          /\ chain.log[i].outs = <<>>

====
